---- MODULE Spec2Model ----
(***************************************************************************)
(* Two-cycle TSP local search (Veanir/imo-1).                               *)
(*                                                                         *)
(* The model follows the Rust sources: the instance and the Solution of    *)
(* tsplib.rs, the Move variants and Move::apply of moves/types.rs, the     *)
(* delta evaluation functions of moves/inter_route.rs and                  *)
(* moves/intra_route.rs, and the search loop of                            *)
(* algorithms/local_search/base.rs.                                        *)
(*                                                                         *)
(* Vectors are sequences; the sources index them from 0, so At(v, pos)     *)
(* reads v[pos] and every position of the model is 0-based as in the code. *)
(* A Move carries node identities (types.rs: v1, v2 / a, b, c, d); the     *)
(* evaluation functions name the nodes found at the positions they were    *)
(* given.  An Option is a sequence of length 0 (None) or 1 (Some).         *)
(***************************************************************************)
EXTENDS Integers, Sequences, FiniteSets, TLC

VARIABLES
    instance,           \* index of the loaded TsplibInstance
    nearest_neighbors,  \* TsplibInstance.nearest_neighbors
    variant,            \* LocalSearch.variant (SearchVariant)
    candidate_k,        \* the k of SearchVariant::CandidateSteepest(k)
    neighborhood,       \* LocalSearch.neighborhood (NeighborhoodType)
    initial_solution_type, \* LocalSearch.initial_solution_type
    current_solution,   \* the Solution being mutated
    current_cost,       \* tracked cost
    cost_before_iter,   \* tracked cost at the start of the last iteration
    iteration,          \* loop counter of solve_with_feedback
    move_list,          \* persistent list of MoveListSteepest
    best_evaluated_move,\* Option<EvaluatedMove> selected in the last iteration
    pc,                 \* control state
    initial_cost,       \* history: cost of the initial solution
    solution_before,    \* history: the Solution before the last step
    list_before,        \* history: move_list at the start of the last iteration
    evaluated,          \* result of the last evaluation function call
    progress_log,       \* the messages progress_callback received, in order
    algorithm,          \* the constructive heuristic whose solve() is running
    solve_available,    \* solve(): available, the vertices not yet in a cycle
    solve_current_cycle,\* solve(): current_cycle, the cycle the next vertex goes to
    best_solution,      \* RandomWalk: best_solution
    best_cost,          \* RandomWalk: best_cost
    max_iterations      \* RandomWalk: self.max_iterations

vars == << instance, nearest_neighbors, variant, candidate_k, neighborhood,
           initial_solution_type,
           current_solution, current_cost, cost_before_iter, iteration,
           move_list, best_evaluated_move, pc, initial_cost, solution_before,
           list_before, evaluated, progress_log,
           algorithm, solve_available, solve_current_cycle,
           best_solution, best_cost, max_iterations >>

-----------------------------------------------------------------------------
(* Bounds of the model *)

\* how many entries of InstanceTable the initial states draw from
NumInstances == 4

\* the largest instance for which every order of the shuffled nodes is drawn
MaxRandomDim == 5

\* cap of the loop counter
MaxIter == 8

-----------------------------------------------------------------------------
(* Instances: node coordinates, as read from a TSPLIB file *)

InstanceTable ==
    << << <<5, 2>>, <<1, 6>>, <<1, 5>>, <<5, 3>>, <<5, 0>> >>,
       << <<0, 0>>, <<3, 0>>, <<3, 3>>, <<0, 3>> >>,
       << <<8, 13>>, <<1, 7>>, <<3, 19>>, <<1, 0>>, <<10, 11>>, <<12, 7>>, <<18, 6>> >>,
       << <<2, 19>>, <<1, 13>>, <<2, 6>>, <<3, 11>>, <<8, 4>>, <<13, 9>>, <<18, 1>>,
          <<10, 12>> >>,
       << <<0, 6>>, <<6, 0>>, <<2, 1>>, <<5, 1>>, <<0, 2>> >>,
       << <<0, 0>>, <<3, 4>> >>,
       << <<0, 0>>, <<4, 0>>, <<0, 3>> >>,
       << <<0, 0>>, <<6, 1>>, <<2, 5>>, <<7, 6>>, <<3, 2>>, <<9, 3>> >> >>

\* the instances of two, three and six nodes, given to the constructive heuristics
\* besides the others
SmallInstanceIds == { i \in 1..Len(InstanceTable) : Len(InstanceTable[i]) \in {2, 3, 6} }

InstanceIds == 1..(IF NumInstances < Len(InstanceTable) THEN NumInstances ELSE Len(InstanceTable))

dimension(inst) == Len(InstanceTable[inst])

Nodes(inst) == 0..(dimension(inst) - 1)

\* f64 sqrt followed by round(): the integer nearest to the square root
RoundSqrt(s) == CHOOSE r \in 0..s : 4 * s < (2 * r + 1) * (2 * r + 1)
                                     /\ (r = 0 \/ 4 * s >= (2 * r - 1) * (2 * r - 1))

calculate_distance(inst, i, j) ==
    IF i = j THEN 0
    ELSE LET p1 == InstanceTable[inst][i + 1]
             p2 == InstanceTable[inst][j + 1]
             dx == p2[1] - p1[1]
             dy == p2[2] - p1[2]
         IN RoundSqrt(dx * dx + dy * dy)

\* the dense matrix filled once at load time
calculate_distance_matrix ==
    [inst \in 1..Len(InstanceTable) |->
        [i \in Nodes(inst) |-> [j \in Nodes(inst) |-> calculate_distance(inst, i, j)]]]

distance(inst, i, j) == calculate_distance_matrix[inst][i][j]

-----------------------------------------------------------------------------
(* Solution *)

Cycle1 == "Cycle1"
Cycle2 == "Cycle2"
CycleIds == <<Cycle1, Cycle2>>

At(v, pos) == v[pos + 1]

SetAt(v, pos, x) == [v EXCEPT ![pos + 1] = x]

Range(v) == {v[i] : i \in 1..Len(v)}

Solution(c1, c2) == [cycle1 |-> c1, cycle2 |-> c2]

get_cycle(solution, cycle_id) ==
    IF cycle_id = Cycle1 THEN solution.cycle1 ELSE solution.cycle2

set_cycle(solution, cycle_id, v) ==
    IF cycle_id = Cycle1 THEN [solution EXCEPT !.cycle1 = v]
                         ELSE [solution EXCEPT !.cycle2 = v]

RECURSIVE SumEdges(_, _, _)
SumEdges(inst, cycle, i) ==
    IF i >= Len(cycle) THEN 0
    ELSE distance(inst, At(cycle, i), At(cycle, (i + 1) % Len(cycle)))
         + SumEdges(inst, cycle, i + 1)

\* calculate_cycle_cost without the closing edge from the last node to the first
calculate_cycle_cost_open_path(inst, cycle) ==
    IF Len(cycle) = 0 THEN 0
    ELSE SumEdges(inst, cycle, 0) - distance(inst, At(cycle, Len(cycle) - 1), At(cycle, 0))

calculate_cycle_cost(inst, cycle) ==
    IF Len(cycle) = 0 THEN 0 ELSE SumEdges(inst, cycle, 0)

calculate_cost(inst, solution) ==
    calculate_cycle_cost(inst, solution.cycle1) + calculate_cycle_cost(inst, solution.cycle2)

\* iter().position(): the first index holding node_id
position(v, node_id) ==
    IF node_id \in Range(v)
    THEN << (CHOOSE i \in 1..Len(v) :
                v[i] = node_id /\ \A j \in 1..(i - 1) : v[j] # node_id) - 1 >>
    ELSE << >>

find_node(solution, node_id) ==
    IF position(solution.cycle1, node_id) # << >>
    THEN << [cycle |-> Cycle1, pos |-> position(solution.cycle1, node_id)[1]] >>
    ELSE IF position(solution.cycle2, node_id) # << >>
    THEN << [cycle |-> Cycle2, pos |-> position(solution.cycle2, node_id)[1]] >>
    ELSE << >>

\* Some(1) for the directed edge (a, b), Some(-1) for (b, a), scanning from 0
RECURSIVE ScanEdge(_, _, _, _)
ScanEdge(cycle, a, b, i) ==
    IF i >= Len(cycle) THEN << >>
    ELSE LET u == At(cycle, i)
             v == At(cycle, (i + 1) % Len(cycle))
         IN IF u = a /\ v = b THEN << 1 >>
            ELSE IF u = b /\ v = a THEN << -1 >>
            ELSE ScanEdge(cycle, a, b, i + 1)

check_edge_in_cycle(cycle, a, b) ==
    IF Len(cycle) < 2 THEN << >> ELSE ScanEdge(cycle, a, b, 0)

\* the loop `for &v in cycle` of is_valid from position i on: scanned is the used
\* vector and the count so far; an id out of range or already used returns false
RECURSIVE mark_used(_, _, _, _)
mark_used(inst, cycle, i, scanned) ==
    IF i >= Len(cycle) THEN scanned
    ELSE IF At(cycle, i) >= dimension(inst) \/ scanned.used[At(cycle, i)]
    THEN [scanned EXCEPT !.returned_false = TRUE]
    ELSE mark_used(inst, cycle, i + 1,
                   [used |-> [scanned.used EXCEPT ![At(cycle, i)] = TRUE],
                    count |-> scanned.count + 1,
                    returned_false |-> FALSE])

\* is_valid that only counts the nodes
is_valid_count_only(inst, solution) ==
    Len(solution.cycle1) + Len(solution.cycle2) = dimension(inst)

is_valid(inst, solution) ==
    LET after_cycle1 == mark_used(inst, solution.cycle1, 0,
                            [used |-> [v \in Nodes(inst) |-> FALSE], count |-> 0,
                             returned_false |-> FALSE])
    IN IF after_cycle1.returned_false THEN FALSE
       ELSE LET after_cycle2 == mark_used(inst, solution.cycle2, 0, after_cycle1)
            IN IF after_cycle2.returned_false THEN FALSE
               ELSE /\ after_cycle2.count = dimension(inst)
                    /\ \A v \in Nodes(inst) : after_cycle2.used[v]

-----------------------------------------------------------------------------
(* Moves *)

InterRouteExchange(v1, v2) == [kind |-> "InterRouteExchange", v1 |-> v1, v2 |-> v2]

IntraRouteVertexExchange(v1, v2, cycle) ==
    [kind |-> "IntraRouteVertexExchange", v1 |-> v1, v2 |-> v2, cycle |-> cycle]

IntraRouteEdgeExchange(a, b, c, d, cycle) ==
    [kind |-> "IntraRouteEdgeExchange", a |-> a, b |-> b, c |-> c, d |-> d, cycle |-> cycle]

EvaluatedMove(m, delta) == [move_type |-> m, delta |-> delta]

Reverse(s) == [i \in 1..Len(s) |-> s[Len(s) + 1 - i]]

\* ReverseSlice that stops one short: v[start..end] reversed, v[end] left in place
ReverseSlice_exclusive_end(v, start, end) ==
    [i \in 1..Len(v) |->
        IF start + 1 <= i /\ i <= end THEN v[start + end + 1 - i] ELSE v[i]]

\* the slice v[start..=end] reversed in place
ReverseSlice(v, start, end) ==
    [i \in 1..Len(v) |->
        IF start + 1 <= i /\ i <= end + 1 THEN v[start + end + 2 - i] ELSE v[i]]

\* ReverseWrapped that reverses the slice between the two positions instead of
\* the arc through the end of the vector
ReverseWrapped_inner_slice(v, start, end) == ReverseSlice(v, end, start)

\* start > end: v[start..] ++ v[..=end] reversed, copied back to start..n, 0..=end
ReverseWrapped(v, start, end) ==
    LET n == Len(v)
        temp_slice == Reverse(SubSeq(v, start + 1, n) \o SubSeq(v, 1, end + 1))
    IN [i \in 1..n |->
          IF i >= start + 1 THEN temp_slice[i - start]
          ELSE IF i <= end + 1 THEN temp_slice[(n - start) + i]
          ELSE v[i]]

\* apply_inter_route_exchange with the second write forgotten: v2 goes to the place
\* of v1, the place of v2 keeps v2
apply_inter_route_exchange_one_write(m, solution) ==
    LET pos1_opt == find_node(solution, m.v1)
        pos2_opt == find_node(solution, m.v2)
    IN IF pos1_opt = << >> \/ pos2_opt = << >> THEN solution
       ELSE IF pos1_opt[1].cycle = Cycle1 /\ pos2_opt[1].cycle = Cycle2
       THEN Solution(SetAt(solution.cycle1, pos1_opt[1].pos, m.v2), solution.cycle2)
       ELSE IF pos1_opt[1].cycle = Cycle2 /\ pos2_opt[1].cycle = Cycle1
       THEN Solution(solution.cycle1, SetAt(solution.cycle2, pos1_opt[1].pos, m.v2))
       ELSE solution

\* apply_inter_route_exchange without its second arm: v1 in cycle2 and v2 in cycle1
\* is taken for a failure and nothing is written
apply_inter_route_exchange_first_arm_only(m, solution) ==
    LET pos1_opt == find_node(solution, m.v1)
        pos2_opt == find_node(solution, m.v2)
    IN IF pos1_opt = << >> \/ pos2_opt = << >> THEN solution
       ELSE IF pos1_opt[1].cycle = Cycle1 /\ pos2_opt[1].cycle = Cycle2
       THEN Solution(SetAt(solution.cycle1, pos1_opt[1].pos, m.v2),
                     SetAt(solution.cycle2, pos2_opt[1].pos, m.v1))
       ELSE solution

\* apply_inter_route_exchange as a relocation: v1 leaves its cycle and is pushed
\* onto the cycle of v2, which keeps v2
apply_inter_route_exchange_relocating(m, solution) ==
    LET pos1_opt == find_node(solution, m.v1)
        pos2_opt == find_node(solution, m.v2)
    IN IF pos1_opt = << >> \/ pos2_opt = << >> THEN solution
       ELSE IF pos1_opt[1].cycle = Cycle1 /\ pos2_opt[1].cycle = Cycle2
       THEN Solution(SelectSeq(solution.cycle1, LAMBDA x : x # m.v1),
                     Append(solution.cycle2, m.v1))
       ELSE IF pos1_opt[1].cycle = Cycle2 /\ pos2_opt[1].cycle = Cycle1
       THEN Solution(Append(solution.cycle1, m.v1),
                     SelectSeq(solution.cycle2, LAMBDA x : x # m.v1))
       ELSE solution

apply_inter_route_exchange(m, solution) ==
    LET pos1_opt == find_node(solution, m.v1)
        pos2_opt == find_node(solution, m.v2)
    IN IF pos1_opt = << >> \/ pos2_opt = << >> THEN solution
       ELSE IF pos1_opt[1].cycle = Cycle1 /\ pos2_opt[1].cycle = Cycle2
       THEN Solution(SetAt(solution.cycle1, pos1_opt[1].pos, m.v2),
                     SetAt(solution.cycle2, pos2_opt[1].pos, m.v1))
       ELSE IF pos1_opt[1].cycle = Cycle2 /\ pos2_opt[1].cycle = Cycle1
       THEN Solution(SetAt(solution.cycle1, pos2_opt[1].pos, m.v1),
                     SetAt(solution.cycle2, pos1_opt[1].pos, m.v2))
       ELSE solution

apply_intra_route_vertex_exchange(m, solution) ==
    LET f1 == find_node(solution, m.v1)
        f2 == find_node(solution, m.v2)
    IN IF f1 = << >> \/ f2 = << >> THEN solution
       ELSE IF f1[1].cycle = m.cycle /\ f2[1].cycle = m.cycle
       THEN LET cycle_vec == get_cycle(solution, m.cycle)
            IN set_cycle(solution, m.cycle,
                   SetAt(SetAt(cycle_vec, f1[1].pos, At(cycle_vec, f2[1].pos)),
                         f2[1].pos, At(cycle_vec, f1[1].pos)))
       ELSE solution

apply_intra_route_edge_exchange(m, solution) ==
    LET fb == find_node(solution, m.b)
        fc == find_node(solution, m.c)
    IN IF fb = << >> \/ fc = << >> THEN solution
       ELSE IF fb[1].cycle = m.cycle /\ fc[1].cycle = m.cycle
       THEN LET cycle_vec == get_cycle(solution, m.cycle)
                start == fb[1].pos
                end == fc[1].pos
            IN IF Len(cycle_vec) < 2 THEN solution
               ELSE IF start > end
               THEN set_cycle(solution, m.cycle, ReverseWrapped(cycle_vec, start, end))
               ELSE set_cycle(solution, m.cycle, ReverseSlice(cycle_vec, start, end))
       ELSE solution

\* Move::apply
apply(m, solution) ==
    CASE m.kind = "InterRouteExchange" -> apply_inter_route_exchange(m, solution)
      [] m.kind = "IntraRouteVertexExchange" -> apply_intra_route_vertex_exchange(m, solution)
      [] m.kind = "IntraRouteEdgeExchange" -> apply_intra_route_edge_exchange(m, solution)

-----------------------------------------------------------------------------
(* Move evaluation: moves/inter_route.rs, moves/intra_route.rs *)

\* prev_pos without the wrap-around: position 0 is its own predecessor
prev_pos_no_wrap(pos, n) == IF pos = 0 THEN 0 ELSE pos - 1

prev_pos(pos, n) == IF pos = 0 THEN n - 1 ELSE pos - 1

\* inter_route_declined asking for three nodes per cycle instead of two
inter_route_declined_below_three(solution, pos1, pos2) ==
    \/ Len(solution.cycle1) < 3 \/ Len(solution.cycle2) < 3
    \/ pos1 >= Len(solution.cycle1) \/ pos2 >= Len(solution.cycle2)

\* the two tests that return None: a cycle below 2 nodes, a position out of range
inter_route_declined(solution, pos1, pos2) ==
    \/ Len(solution.cycle1) < 2 \/ Len(solution.cycle2) < 2
    \/ pos1 >= Len(solution.cycle1) \/ pos2 >= Len(solution.cycle2)

evaluate_inter_route_exchange(inst, solution, pos1, pos2) ==
    LET cycle1 == solution.cycle1
        cycle2 == solution.cycle2
    IN IF inter_route_declined(solution, pos1, pos2) THEN << >>
       ELSE
         LET u == At(cycle1, pos1)
             v == At(cycle2, pos2)
             prev_u == At(cycle1, prev_pos(pos1, Len(cycle1)))
             next_u == At(cycle1, (pos1 + 1) % Len(cycle1))
             cost_removed_c1 == IF Len(cycle1) > 1
                                THEN distance(inst, prev_u, u) + distance(inst, u, next_u)
                                ELSE 0
             cost_added_c1 == IF Len(cycle1) > 1
                              THEN distance(inst, prev_u, v) + distance(inst, v, next_u)
                              ELSE 0
             prev_v == At(cycle2, prev_pos(pos2, Len(cycle2)))
             next_v == At(cycle2, (pos2 + 1) % Len(cycle2))
             cost_removed_c2 == IF Len(cycle2) > 1
                                THEN distance(inst, prev_v, v) + distance(inst, v, next_v)
                                ELSE 0
             cost_added_c2 == IF Len(cycle2) > 1
                              THEN distance(inst, prev_v, u) + distance(inst, u, next_v)
                              ELSE 0
             delta ==
                 IF Len(cycle1) = 2 /\ Len(cycle2) = 2
                 THEN (2 * distance(inst, prev_u, v) - 2 * distance(inst, prev_u, u))
                      + (2 * distance(inst, prev_v, u) - 2 * distance(inst, prev_v, v))
                 ELSE IF Len(cycle1) = 2
                 THEN (2 * distance(inst, prev_u, v) - 2 * distance(inst, prev_u, u))
                      + (cost_added_c2 - cost_removed_c2)
                 ELSE IF Len(cycle2) = 2
                 THEN (cost_added_c1 - cost_removed_c1)
                      + (2 * distance(inst, prev_v, u) - 2 * distance(inst, prev_v, v))
                 ELSE (cost_added_c1 - cost_removed_c1) + (cost_added_c2 - cost_removed_c2)
         IN << EvaluatedMove(InterRouteExchange(u, v), delta) >>

\* the positions as passed, without putting the smaller one first
ordered_positions_as_passed(p1, p2) == << p1, p2 >>

\* (pos1.min(pos2), pos1.max(pos2))
ordered_positions(p1, p2) ==
    << IF p1 < p2 THEN p1 ELSE p2, IF p1 < p2 THEN p2 ELSE p1 >>

evaluate_intra_route_vertex_exchange(inst, solution, cycle, p1, p2) ==
    LET cycle_vec == get_cycle(solution, cycle)
        n == Len(cycle_vec)
    IN IF p1 = p2 \/ n < 2 \/ p1 >= n \/ p2 >= n THEN << >>
       ELSE
         LET pos1 == ordered_positions(p1, p2)[1]
             pos2 == ordered_positions(p1, p2)[2]
             v1 == At(cycle_vec, pos1)
             v2 == At(cycle_vec, pos2)
             prev1 == At(cycle_vec, prev_pos(pos1, n))
             next1 == At(cycle_vec, (pos1 + 1) % n)
             prev2 == At(cycle_vec, prev_pos(pos2, n))
             next2 == At(cycle_vec, (pos2 + 1) % n)
             delta ==
                 IF pos2 = pos1 + 1
                 THEN (distance(inst, prev1, v2) + distance(inst, v2, v1)
                          + distance(inst, v1, next2))
                      - (distance(inst, prev1, v1) + distance(inst, v1, v2)
                          + distance(inst, v2, next2))
                 ELSE IF pos1 = 0 /\ pos2 = n - 1
                 THEN (distance(inst, v1, v2) + distance(inst, v2, next1)
                          + distance(inst, prev2, v1))
                      - (distance(inst, v2, v1) + distance(inst, v1, next1)
                          + distance(inst, prev2, v2))
                 ELSE (distance(inst, prev1, v2) + distance(inst, v2, next1)
                          + distance(inst, prev2, v1) + distance(inst, v1, next2))
                      - (distance(inst, prev1, v1) + distance(inst, v1, next1)
                          + distance(inst, prev2, v2) + distance(inst, v2, next2))
         IN << EvaluatedMove(IntraRouteVertexExchange(v1, v2, cycle), delta) >>

\* edge_exchange_declined without the modulo: positions 0 and n-1 pass for distant
edge_exchange_declined_no_wrap(n, p1, p2) ==
    n < 3 \/ p1 = p2 \/ p1 + 1 = p2 \/ p2 + 1 = p1 \/ p1 >= n \/ p2 >= n

\* the test that returns None; || is evaluated left to right, so n = 0 never reaches
\* the modulo
edge_exchange_declined(n, p1, p2) ==
    n < 3 \/ p1 = p2 \/ (p1 + 1) % n = p2 \/ (p2 + 1) % n = p1 \/ p1 >= n \/ p2 >= n

evaluate_intra_route_edge_exchange(inst, solution, cycle, p1, p2) ==
    LET cycle_vec == get_cycle(solution, cycle)
        n == Len(cycle_vec)
    IN IF edge_exchange_declined(n, p1, p2)
       THEN << >>
       ELSE
         LET pos1 == IF p1 < p2 THEN p1 ELSE p2
             pos2 == IF p1 < p2 THEN p2 ELSE p1
             vi == At(cycle_vec, pos1)
             vi_plus_1 == At(cycle_vec, (pos1 + 1) % n)
             vj == At(cycle_vec, pos2)
             vj_plus_1 == At(cycle_vec, (pos2 + 1) % n)
             cost_removed == distance(inst, vi, vi_plus_1) + distance(inst, vj, vj_plus_1)
             cost_added == distance(inst, vi, vj) + distance(inst, vi_plus_1, vj_plus_1)
         IN << EvaluatedMove(IntraRouteEdgeExchange(vi, vi_plus_1, vj, vj_plus_1, cycle),
                             cost_added - cost_removed) >>

-----------------------------------------------------------------------------
(* Helpers of the search loop: algorithms/local_search/base.rs *)

Steepest == "Steepest"
Greedy == "Greedy"
CandidateSteepest == "CandidateSteepest"
MoveListSteepest == "MoveListSteepest"
SearchVariant == {Steepest, Greedy, CandidateSteepest, MoveListSteepest}

VertexExchange == "VertexExchange"
EdgeExchange == "EdgeExchange"
NeighborhoodType == {VertexExchange, EdgeExchange}

\* the moves of a sequence of Some(m)
Unwrapped(somes) == [i \in 1..Len(somes) |-> somes[i][1]]

\* `if let Some(m) = .. { if m.delta < 0 { moves.push(m) } }` over a sequence of
\* Options: the Some(m) with m.delta < 0, in order (the kept Options are computed
\* once, as the value of the bound variable)
CollectImproving(opts) ==
    CHOOSE moves \in { Unwrapped(kept) :
                         kept \in { SelectSeq(opts,
                                        LAMBDA o : o # << >> /\ o[1].delta < 0) } } : TRUE

\* for pos1 in 0..n1 { for pos2 in 0..n2 {..} }
InterPairs(n1, n2) ==
    [k \in 1..(n1 * n2) |-> << (k - 1) \div n2, (k - 1) % n2 >>]

\* VertexPairs with pos2 running over every position but pos1: each pair twice
VertexPairs_both_orders(n) ==
    SelectSeq([k \in 1..(n * n) |-> << (k - 1) \div n, (k - 1) % n >>],
              LAMBDA p : p[1] # p[2])

\* for pos1 in 0..n { for pos2 in pos1 + 1..n {..} }
VertexPairs(n) ==
    SelectSeq([k \in 1..(n * n) |-> << (k - 1) \div n, (k - 1) % n >>],
              LAMBDA p : p[1] < p[2])

\* for pos1 in 0..n { for pos2_offset in 2..n {..} } with the two filters of the loop body
EdgePairs(n) ==
    SelectSeq([k \in 1..(n * (n - 2)) |->
                  << (k - 1) \div (n - 2), (((k - 1) \div (n - 2)) + 2 + ((k - 1) % (n - 2))) % n >>],
              LAMBDA p : (p[1] < p[2] \/ (p[2] = 0 /\ p[1] = n - 1))
                         /\ ~(p[1] = 0 /\ p[2] = n - 1))

intra_route_moves(inst, solution, nbh, cycle_id) ==
    LET n == Len(get_cycle(solution, cycle_id))
    IN IF nbh = VertexExchange
       THEN IF n >= 2
            THEN CollectImproving(
                     [k \in 1..Len(VertexPairs(n)) |->
                         evaluate_intra_route_vertex_exchange(inst, solution, cycle_id,
                             VertexPairs(n)[k][1], VertexPairs(n)[k][2])])
            ELSE << >>
       ELSE IF n >= 3
            THEN CollectImproving(
                     [k \in 1..Len(EdgePairs(n)) |->
                         evaluate_intra_route_edge_exchange(inst, solution, cycle_id,
                             EdgePairs(n)[k][1], EdgePairs(n)[k][2])])
            ELSE << >>

generate_all_improving_moves(inst, solution, nbh) ==
    LET n1 == Len(solution.cycle1)
        n2 == Len(solution.cycle2)
    IN CollectImproving(
           [k \in 1..(n1 * n2) |->
               evaluate_inter_route_exchange(inst, solution,
                   InterPairs(n1, n2)[k][1], InterPairs(n1, n2)[k][2])])
       \o intra_route_moves(inst, solution, nbh, Cycle1)
       \o intra_route_moves(inst, solution, nbh, Cycle2)

\* the edge evaluation of the candidate search for the pair (pos_a, pos_b)
evaluate_candidate_intra_route_edge_exchange(inst, solution, cycle, pos_a, pos_b) ==
    evaluate_intra_route_edge_exchange(inst, solution, cycle, pos_a, pos_b)

\* the body of the inner loop of generate_candidate_moves for one (node_a, node_b)
candidate_pair_move(inst, solution, nbh, node_a, node_b) ==
    LET fa == find_node(solution, node_a)
        fb == find_node(solution, node_b)
    IN IF fa = << >> \/ node_a = node_b \/ fb = << >> THEN << >>
       ELSE IF fa[1].cycle # fb[1].cycle
       THEN IF fa[1].cycle = Cycle1
            THEN evaluate_inter_route_exchange(inst, solution, fa[1].pos, fb[1].pos)
            ELSE evaluate_inter_route_exchange(inst, solution, fb[1].pos, fa[1].pos)
       ELSE IF nbh = EdgeExchange
            THEN evaluate_candidate_intra_route_edge_exchange(inst, solution, fa[1].cycle,
                                                              fa[1].pos, fb[1].pos)
            ELSE evaluate_intra_route_vertex_exchange(inst, solution, fa[1].cycle,
                                                      fa[1].pos, fb[1].pos)

RECURSIVE candidate_moves_from(_, _, _, _, _)
candidate_moves_from(inst, solution, nbh, neighbors, node_a) ==
    IF node_a >= dimension(inst) THEN << >>
    ELSE CollectImproving(
             [k \in 1..Len(neighbors[node_a]) |->
                 candidate_pair_move(inst, solution, nbh, node_a, neighbors[node_a][k])])
         \o candidate_moves_from(inst, solution, nbh, neighbors, node_a + 1)

\* generate_candidate_moves without the restriction to the neighbour lists
generate_candidate_moves_unrestricted(inst, solution, nbh, neighbors, k) ==
    generate_all_improving_moves(inst, solution, nbh)

\* k is not read: the lists are those the instance holds
generate_candidate_moves(inst, solution, nbh, neighbors, k) ==
    candidate_moves_from(inst, solution, nbh, neighbors, 0)

is_move_valid(solution, m) ==
    CASE m.kind = "InterRouteExchange" ->
           LET info1 == find_node(solution, m.v1)
               info2 == find_node(solution, m.v2)
           IN info1 # << >> /\ info2 # << >> /\ info1[1].cycle # info2[1].cycle
      [] m.kind = "IntraRouteVertexExchange" ->
           LET info1 == find_node(solution, m.v1)
               info2 == find_node(solution, m.v2)
           IN info1 # << >> /\ info2 # << >>
              /\ info1[1].cycle = m.cycle /\ info2[1].cycle = m.cycle
      [] m.kind = "IntraRouteEdgeExchange" ->
           /\ check_edge_in_cycle(get_cycle(solution, m.cycle), m.a, m.b) = << 1 >>
           /\ check_edge_in_cycle(get_cycle(solution, m.cycle), m.c, m.d) = << 1 >>

\* identify_affected_nodes that reports no node
identify_affected_nodes_none(m, solution) == {}

identify_affected_nodes(m, solution) ==
    CASE m.kind = "InterRouteExchange" -> {m.v1, m.v2}
      [] m.kind = "IntraRouteVertexExchange" -> {m.v1, m.v2}
      [] m.kind = "IntraRouteEdgeExchange" -> {m.a, m.b, m.c, m.d}

move_involves_nodes(m, affected_nodes) ==
    IF affected_nodes = {} THEN FALSE
    ELSE CASE m.kind = "InterRouteExchange" ->
                m.v1 \in affected_nodes \/ m.v2 \in affected_nodes
           [] m.kind = "IntraRouteVertexExchange" ->
                m.v1 \in affected_nodes \/ m.v2 \in affected_nodes
           [] m.kind = "IntraRouteEdgeExchange" ->
                m.a \in affected_nodes \/ m.b \in affected_nodes
                \/ m.c \in affected_nodes \/ m.d \in affected_nodes

\* the body is a sketch in comments: the vector returned is always new_moves as created
generate_moves_around_nodes(inst, solution, nbh, affected_nodes) == << >>

-----------------------------------------------------------------------------
(* Sorting.  sort_unstable_by / sort_unstable_by_key leave the order of     *)
(* equal keys unspecified: every order of the ties is a possible result.    *)

SetMin(S) == CHOOSE x \in S : \A y \in S : x <= y

RECURSIVE SortedIndexOrders(_, _)
SortedIndexOrders(keys, I) ==
    IF I = {} THEN { << >> }
    ELSE LET m == SetMin({keys[i] : i \in I})
         IN UNION { { << i >> \o t : t \in SortedIndexOrders(keys, I \ {i}) } :
                    i \in {j \in I : keys[j] = m} }

\* sort_unstable_by_key that leaves the sequence as it is
sort_unstable_by_key_unsorted(seq, keys) == { seq }

\* the possible results of sorting seq by the keys (keys[i] is the key of seq[i])
sort_unstable_by_key(seq, keys) ==
    { [k \in 1..Len(seq) |-> seq[order[k]]] : order \in SortedIndexOrders(keys, 1..Len(seq)) }

\* Vec::insert(pos, x)
InsertAt(list, pos, x) ==
    SubSeq(list, 1, pos) \o << x >> \o SubSeq(list, pos + 1, Len(list))

\* sorted, with the moves of rest inserted one by one behind the deltas not above theirs
RECURSIVE insert_all_by_delta(_, _)
insert_all_by_delta(sorted, rest) ==
    IF rest = << >> THEN sorted
    ELSE insert_all_by_delta(
             InsertAt(sorted,
                      Cardinality({i \in 1..Len(sorted) : sorted[i].delta <= Head(rest).delta}),
                      Head(rest)),
             Tail(rest))

\* sort_by_delta that leaves the moves in the order they were generated
sort_by_delta_unsorted(moves) == moves

\* the move list sorted by delta.  The order sort_unstable_by gives to entries of
\* equal delta is unspecified and only the selection phase reads it, so the list
\* is kept in one representative order and the selection resolves the ties.
sort_by_delta(moves) == insert_all_by_delta(<< >>, moves)

-----------------------------------------------------------------------------
(* TsplibInstance: nearest neighbours *)

no_neighbors(inst) == [i \in Nodes(inst) |-> << >>]

\* the other nodes in index order: (0..dimension).filter(|&j| i != j)
other_nodes(inst, i) ==
    SelectSeq([j \in 1..dimension(inst) |-> j - 1], LAMBDA j : j # i)

\* the possible lists of node i: sorted by distance, the first k taken
nearest_of(inst, i, k) ==
    { SubSeq(sorted, 1, k) :
        sorted \in sort_unstable_by_key(other_nodes(inst, i),
                      [j \in 1..(dimension(inst) - 1) |->
                          distance(inst, i, other_nodes(inst, i)[j])]) }

\* the possible tables for the nodes i..dimension-1, as sequences of lists
RECURSIVE neighbor_tables(_, _, _)
neighbor_tables(inst, k, i) ==
    IF i >= dimension(inst) THEN { << >> }
    ELSE { << l >> \o t : l \in nearest_of(inst, i, k), t \in neighbor_tables(inst, k, i + 1) }

\* precompute_nearest_neighbors whose rejecting branch only warns and returns: the
\* lists of an earlier call are kept
precompute_nearest_neighbors_reject_keeps(inst, current, k) ==
    IF k = 0 \/ k >= dimension(inst) THEN { current }
    ELSE IF current[0] # << >> /\ Len(current[0]) = k THEN { current }
    ELSE { [i \in Nodes(inst) |-> t[i + 1]] : t \in neighbor_tables(inst, k, 0) }

\* the possible values of nearest_neighbors after precompute_nearest_neighbors(k)
precompute_nearest_neighbors(inst, current, k) ==
    IF k = 0 \/ k >= dimension(inst) THEN { no_neighbors(inst) }
    ELSE IF current[0] # << >> /\ Len(current[0]) = k THEN { current }
    ELSE { [i \in Nodes(inst) |-> t[i + 1]] : t \in neighbor_tables(inst, k, 0) }

\* the outcome of a call that can panic: it aborted, or it returned value
Panicked == [panicked |-> TRUE]
Returned(value) == [panicked |-> FALSE, value |-> value]

\* get_nearest_neighbors without its first check: the stored list, computed or not
get_nearest_neighbors_unchecked(inst, table, node_id) ==
    IF node_id >= dimension(inst) THEN Panicked ELSE Returned(table[node_id])

\* TsplibInstance::get_nearest_neighbors on the stored table
get_nearest_neighbors(inst, table, node_id) ==
    IF dimension(inst) = 0 \/ table[0] = << >> THEN Panicked
    ELSE IF node_id >= dimension(inst) THEN Panicked
    ELSE Returned(table[node_id])

-----------------------------------------------------------------------------
(* Initial solution *)

RECURSIVE Orderings(_)
Orderings(S) ==
    IF S = {} THEN { << >> }
    ELSE UNION { { << x >> \o t : t \in Orderings(S \ {x}) } : x \in S }

\* the orders the shuffle of the nodes can leave: all of them up to MaxRandomDim
\* nodes; for a larger instance the one order that leaves every node in place
shuffled_nodes(inst) ==
    IF dimension(inst) <= MaxRandomDim THEN Orderings(Nodes(inst))
    ELSE { [k \in 1..dimension(inst) |-> k - 1] }

\* a random two-way split: the shuffled nodes, the first ceil(N/2) in cycle1
generate_random_solution(inst) ==
    LET h == (dimension(inst) + 1) \div 2
    IN { Solution(SubSeq(p, 1, h), SubSeq(p, h + 1, dimension(inst))) :
           p \in shuffled_nodes(inst) }

-----------------------------------------------------------------------------
(* Initial solution from the constructive heuristic:                        *)
(* algorithms/weighted_regret_cycle.rs with the default weights (1.0, -1.0) *)

\* the pairs (i, j), i < j, in iteration order
node_pairs(inst) ==
    SelectSeq([k \in 1..(dimension(inst) * dimension(inst)) |->
                  << (k - 1) \div dimension(inst), (k - 1) % dimension(inst) >>],
              LAMBDA p : p[1] < p[2])

\* max_by_key over the pairs: the last of the pairs of greatest distance
last_max_distance_pair(inst, pairs) ==
    pairs[CHOOSE i \in 1..Len(pairs) :
             /\ \A j \in 1..Len(pairs) :
                   distance(inst, pairs[j][1], pairs[j][2])
                      <= distance(inst, pairs[i][1], pairs[i][2])
             /\ \A j \in (i + 1)..Len(pairs) :
                   distance(inst, pairs[j][1], pairs[j][2])
                      < distance(inst, pairs[i][1], pairs[i][2])]

find_max_distance_pair(inst) ==
    IF dimension(inst) < 2 THEN << 0, 1 >>
    ELSE last_max_distance_pair(inst, node_pairs(inst))

\* min_by_key: the first of the minimal elements
find_nearest(inst, from, available) ==
    available[CHOOSE i \in 1..Len(available) :
                 /\ \A j \in 1..Len(available) :
                       distance(inst, from, available[i]) <= distance(inst, from, available[j])
                 /\ \A j \in 1..(i - 1) :
                       distance(inst, from, available[j]) > distance(inst, from, available[i])]

calculate_insertion_cost(inst, vertex, pos, cycle) ==
    IF Len(cycle) = 0 THEN 0
    ELSE IF Len(cycle) = 1 THEN distance(inst, cycle[1], vertex) * 2
    ELSE distance(inst, At(cycle, prev_pos(pos, Len(cycle))), vertex)
         + distance(inst, vertex, At(cycle, pos % Len(cycle)))
         - distance(inst, At(cycle, prev_pos(pos, Len(cycle))), At(cycle, pos % Len(cycle)))

\* costs: the insertion cost of the vertex at each position 0..=cycle.len()
insertion_costs(inst, vertex, cycle) ==
    [pos \in 0..Len(cycle) |-> calculate_insertion_cost(inst, vertex, pos, cycle)]

\* costs.sort_by_key(cost) is stable: costs[0] is the first position of least cost
first_best_position(costs) ==
    CHOOSE p \in DOMAIN costs :
        \A q \in DOMAIN costs : costs[p] < costs[q] \/ (costs[p] = costs[q] /\ p <= q)

\* << weighted score, best position >>: costs[1] of the sorted costs is the least
\* cost of the other positions, and the score regret * 1.0 + best_cost * (-1.0)
\* is exact on these integers
weighted_score(costs, best_pos) ==
    << (SetMin({costs[q] : q \in DOMAIN costs \ {best_pos}}) - costs[best_pos])
          - costs[best_pos],
       best_pos >>

score_of_costs(costs) == weighted_score(costs, first_best_position(costs))

calculate_weighted_score(inst, vertex, cycle) ==
    IF Len(cycle) = 0 THEN << 0, 0 >>
    ELSE score_of_costs(insertion_costs(inst, vertex, cycle))

\* max_by on the score: the last of the vertices of greatest score
last_best_index(scores) ==
    CHOOSE i \in 1..Len(scores) :
        /\ \A j \in 1..Len(scores) : scores[j][1] <= scores[i][1]
        /\ \A j \in (i + 1)..Len(scores) : scores[j][1] < scores[i][1]

\* << vertex, position >> of the vertex chosen among the scored ones
best_vertex_and_position(available, scores, best) ==
    << available[best], scores[best][2] >>

best_of_scores(available, scores) ==
    best_vertex_and_position(available, scores, last_best_index(scores))

select_best_vertex(inst, cycle, available) ==
    best_of_scores(available,
        [i \in 1..Len(available) |-> calculate_weighted_score(inst, available[i], cycle)])

\* available.retain(|&x| x != vertex)
retain_other(available, vertex) == SelectSeq(available, LAMBDA x : x # vertex)

\* the while loop: insert into the cycles in turn until no vertex is available
RECURSIVE alternate_insertion(_, _, _, _, _)
insert_best_vertex(inst, cycle1, cycle2, available, current_cycle, chosen) ==
    IF current_cycle = 1
    THEN alternate_insertion(inst, InsertAt(cycle1, chosen[2], chosen[1]), cycle2,
                             retain_other(available, chosen[1]), 2)
    ELSE alternate_insertion(inst, cycle1, InsertAt(cycle2, chosen[2], chosen[1]),
                             retain_other(available, chosen[1]), 1)

alternate_insertion(inst, cycle1, cycle2, available, current_cycle) ==
    IF available = << >> THEN Solution(cycle1, cycle2)
    ELSE insert_best_vertex(inst, cycle1, cycle2, available, current_cycle,
             select_best_vertex(inst, IF current_cycle = 1 THEN cycle1 ELSE cycle2,
                                available))

\* cycle2.push(nearest2), then the loop
with_nearest2(inst, cycle1, start2, available, nearest2) ==
    alternate_insertion(inst, cycle1, << start2, nearest2 >>,
                        retain_other(available, nearest2), 1)

\* cycle2 gets the nearest of start2 if a vertex is left
push_nearest2(inst, cycle1, start2, available) ==
    IF available = << >> THEN Solution(cycle1, << start2 >>)
    ELSE with_nearest2(inst, cycle1, start2, available,
                       find_nearest(inst, start2, available))

\* cycle1.push(nearest1)
with_nearest1(inst, start1, start2, available, nearest1) ==
    push_nearest2(inst, << start1, nearest1 >>, start2, retain_other(available, nearest1))

\* cycle1 gets the nearest of start1 if a vertex is left
push_nearest1(inst, start1, start2, available) ==
    IF available = << >> THEN Solution(<< start1 >>, << start2 >>)
    ELSE with_nearest1(inst, start1, start2, available,
                       find_nearest(inst, start1, available))

\* (0..n).filter(|&x| x != start1 && x != start2)
initially_available(inst, start) ==
    SelectSeq([j \in 1..dimension(inst) |-> j - 1],
              LAMBDA x : x # start[1] /\ x # start[2])

\* WeightedRegretCycle::solve
from_start_pair(inst, start) ==
    push_nearest1(inst, start[1], start[2], initially_available(inst, start))

weighted_regret_cycle(inst) == from_start_pair(inst, find_max_distance_pair(inst))

\* the constructive heuristics (impl TspAlgorithm)
GreedyCycle == "Greedy Cycle"
RegretCycle == "2-Regret Cycle"
WeightedRegretCycle == "Weighted 2-Regret Cycle"
NearestNeighbor == "Nearest Neighbor"

InsertionHeuristics == {GreedyCycle, RegretCycle, WeightedRegretCycle}

-----------------------------------------------------------------------------
(* The vertex selection of algorithms/greedy_cycle.rs and regret_cycle.rs    *)

\* GreedyCycle::find_best_insertion: << position, cost >>, min_by_key taking the
\* first position of least cost
find_best_insertion(inst, vertex, cycle) ==
    IF Len(cycle) = 0 THEN << 0, 0 >>
    ELSE << first_best_position(insertion_costs(inst, vertex, cycle)),
            SetMin({calculate_insertion_cost(inst, vertex, pos, cycle) :
                       pos \in 0..Len(cycle)}) >>

\* min_by_key on the cost: the first of the vertices of least cost
first_cheapest_index(insertions) ==
    CHOOSE i \in 1..Len(insertions) :
        /\ \A j \in 1..Len(insertions) : insertions[i][2] <= insertions[j][2]
        /\ \A j \in 1..(i - 1) : insertions[j][2] > insertions[i][2]

\* GreedyCycle::select_best_vertex: << vertex, position >>
greedy_select_best_vertex(inst, cycle, available) ==
    << available[first_cheapest_index(
           [i \in 1..Len(available) |-> find_best_insertion(inst, available[i], cycle)])],
       find_best_insertion(inst,
           available[first_cheapest_index(
               [i \in 1..Len(available) |-> find_best_insertion(inst, available[i], cycle)])],
           cycle)[1] >>

\* << regret, best position >>: the second least cost minus the least
regret_of_costs(costs, best_pos) ==
    << SetMin({costs[q] : q \in DOMAIN costs \ {best_pos}}) - costs[best_pos], best_pos >>

\* RegretCycle::calculate_regret with k_regret = 2
calculate_regret(inst, vertex, cycle) ==
    IF Len(cycle) = 0 THEN << 0, 0 >>
    ELSE regret_of_costs(insertion_costs(inst, vertex, cycle),
                         first_best_position(insertion_costs(inst, vertex, cycle)))

\* RegretCycle::select_best_vertex: max_by_key on the regret
regret_select_best_vertex(inst, cycle, available) ==
    best_of_scores(available,
        [i \in 1..Len(available) |-> calculate_regret(inst, available[i], cycle)])

\* select_best_vertex that finds no vertex
select_best_vertex_of_none(heuristic, inst, cycle, available) == << >>

\* self.select_best_vertex(&cycle, &available, instance) of the heuristic, as an
\* Option: None when no vertex is available
select_best_vertex_of(heuristic, inst, cycle, available) ==
    IF available = << >> THEN << >>
    ELSE IF heuristic = GreedyCycle
    THEN << greedy_select_best_vertex(inst, cycle, available) >>
    ELSE IF heuristic = RegretCycle
    THEN << regret_select_best_vertex(inst, cycle, available) >>
    ELSE << select_best_vertex(inst, cycle, available) >>

-----------------------------------------------------------------------------
(* algorithms/nearest_neighbor.rs                                            *)

\* the fold over vertices: << available1, available2 >>, the vertices at the odd
\* indices and those at the even indices
split_by_index_parity(vertices) ==
    << [k \in 1..(Len(vertices) \div 2) |-> vertices[2 * k]],
       [k \in 1..((Len(vertices) + 1) \div 2) |-> vertices[2 * k - 1]] >>

\* NearestNeighbor::build_cycle, from the cycle built so far
RECURSIVE build_cycle(_, _, _, _)
build_cycle(inst, cycle, available, target_size) ==
    IF Len(cycle) < target_size /\ available # << >>
    THEN CHOOSE built \in
             { build_cycle(inst, Append(cycle, nearest), retain_other(available, nearest),
                           target_size) :
                 nearest \in {find_nearest(inst, cycle[Len(cycle)], available)} } : TRUE
    ELSE cycle

\* the two build_cycle calls on the split vertices
nearest_neighbor_cycles(inst, start, split) ==
    Solution(build_cycle(inst, << start[1] >>, split[1], (dimension(inst) + 1) \div 2),
             build_cycle(inst, << start[2] >>, split[2], dimension(inst) \div 2))

\* NearestNeighbor::solve
nearest_neighbor(inst) ==
    CHOOSE built \in
        { nearest_neighbor_cycles(inst, start,
              CHOOSE split \in {split_by_index_parity(available) :
                                   available \in {initially_available(inst, start)}} : TRUE) :
            start \in {find_max_distance_pair(inst)} } : TRUE

Random == "Random"
Heuristic == "Heuristic"
InitialSolutionType == {Random, Heuristic}

\* LocalSearch::generate_initial_solution: the possible results
generate_initial_solution(inst, initial_type) ==
    IF initial_type = Random THEN generate_random_solution(inst)
    ELSE { weighted_regret_cycle(inst) }

-----------------------------------------------------------------------------
(* Move list maintenance of MoveListSteepest *)

\* Vec::remove(index)
RemoveAt(list, index) ==
    SubSeq(list, 1, index) \o SubSeq(list, index + 2, Len(list))

\* binary_search_by on delta: the sorted insertion point (before the equal deltas)
insertion_point(list, delta) ==
    Cardinality({i \in 1..Len(list) : list[i].delta < delta})

RECURSIVE merge_new_moves(_, _)
merge_new_moves(list, new_moves) ==
    IF new_moves = << >> THEN list
    ELSE LET new_move == Head(new_moves)
         IN IF new_move.delta < 0
               /\ new_move.move_type \notin {list[i].move_type : i \in 1..Len(list)}
            THEN merge_new_moves(
                     InsertAt(list, insertion_point(list, new_move.delta), new_move),
                     Tail(new_moves))
            ELSE merge_new_moves(list, Tail(new_moves))

\* steps 1..5 of the update after applied_move (found at index) has been applied
update_move_list(inst, list, index, applied_move, solution, nbh) ==
    LET removed == RemoveAt(list, index)
        affected_nodes == identify_affected_nodes(applied_move.move_type, solution)
        retained == SelectSeq(removed,
                        LAMBDA m : ~move_involves_nodes(m.move_type, affected_nodes))
        new_moves == generate_moves_around_nodes(inst, solution, nbh, affected_nodes)
    IN merge_new_moves(retained, new_moves)

-----------------------------------------------------------------------------
(* The search loop: LocalSearch::solve_with_feedback *)

\* select_steepest taking the first move of negative delta instead of the least
select_steepest_first_improving(moves) ==
    IF \E i \in 1..Len(moves) : moves[i].delta < 0
    THEN << moves[CHOOSE i \in 1..Len(moves) :
                     /\ moves[i].delta < 0
                     /\ \A j \in 1..(i - 1) : moves[j].delta >= 0] >>
    ELSE << >>

\* min_by_key(|m| m.delta): the first of the minimal elements, kept when negative
select_steepest(moves) ==
    IF moves = << >> THEN << >>
    ELSE LET i == CHOOSE i \in 1..Len(moves) :
                      /\ \A j \in 1..Len(moves) : moves[i].delta <= moves[j].delta
                      /\ \A j \in 1..(i - 1) : moves[j].delta > moves[i].delta
         IN IF moves[i].delta < 0 THEN << moves[i] >> ELSE << >>

\* select_greedy without the shuffle: the first move of negative delta
select_greedy_unshuffled(moves) == { select_steepest_first_improving(moves) }

\* shuffle, then find(|m| m.delta < 0): any of the negative elements can come first
select_greedy(moves) ==
    IF \E i \in 1..Len(moves) : moves[i].delta < 0
    THEN { << moves[i] >> : i \in {j \in 1..Len(moves) : moves[j].delta < 0} }
    ELSE { << >> }

\* select_from_move_list without the validity check: the first entry of negative delta
select_from_move_list_unchecked(list, solution) ==
    IF \E i \in 1..Len(list) : list[i].delta < 0
    THEN { << (CHOOSE i \in 1..Len(list) :
                  list[i].delta < 0 /\ \A j \in 1..(i - 1) : list[j].delta >= 0) - 1 >> }
    ELSE { << >> }

\* select_from_move_list scanning the list in an order of its own: any entry of
\* negative delta that is still valid
select_from_move_list_any_order(list, solution) ==
    IF \E i \in 1..Len(list) :
          list[i].delta < 0 /\ is_move_valid(solution, list[i].move_type)
    THEN { << k - 1 >> : k \in
             { i \in 1..Len(list) :
                 list[i].delta < 0 /\ is_move_valid(solution, list[i].move_type) } }
    ELSE { << >> }

\* entries j..i of the list all store the same delta
same_delta_run(list, j, i) == \A l \in j..i : list[l].delta = list[i].delta

\* the index of the first entry, in list order, with negative delta that is still
\* valid; the order inside a run of equal deltas is the one sort_unstable_by_key
\* left (see sort_by_delta), so any valid entry of the first such run can be first
select_from_move_list(list, solution) ==
    IF \E i \in 1..Len(list) :
          list[i].delta < 0 /\ is_move_valid(solution, list[i].move_type)
    THEN { << i - 1 >> : i \in
             { k \in 1..Len(list) :
                 /\ list[k].delta < 0 /\ is_move_valid(solution, list[k].move_type)
                 /\ \A j \in 1..(k - 1) :
                       (list[j].delta < 0 /\ is_move_valid(solution, list[j].move_type))
                           => same_delta_run(list, j, k) } }
    ELSE { << >> }

\* reconciled_cost that trusts the stored delta
reconciled_cost_incremental_only(inst, cost_before_apply, applied_move, solution_after) ==
    cost_before_apply + applied_move.delta

\* cost after apply: the incremental cost, replaced by the real one on a mismatch
reconciled_cost(inst, cost_before_apply, applied_move, solution_after) ==
    LET incremental == cost_before_apply + applied_move.delta
        real_cost_after_apply == calculate_cost(inst, solution_after)
    IN IF real_cost_after_apply # incremental THEN real_cost_after_apply ELSE incremental

\* improvement_check that never stops the loop
improvement_check_never_breaks(cost_after, cost_before) == "Iterating"

\* improvement_check with the comparison inverted: the loop goes on when the cost
\* did not improve
improvement_check_inverted(cost_after, cost_before) ==
    IF cost_after >= cost_before THEN "Iterating" ELSE "Converged"

\* improvement_check that stops only when the cost went up
improvement_check_greater_only(cost_after, cost_before) ==
    IF cost_after > cost_before THEN "Converged" ELSE "Iterating"

\* "Check if cost actually improved": the loop goes on only below cost_before_iter
improvement_check(cost_after, cost_before) ==
    IF cost_after >= cost_before THEN "Converged" ELSE "Iterating"

\* progress_callback(format!("[Iter: {}] Cost: {}", iteration, current_cost))
iter_message(iteration_number, cost) ==
    [kind |-> "Iter", iteration |-> iteration_number, cost |-> cost]

\* progress_callback(format!("[Finished] ... Final Cost: {}", current_cost))
finished_message(cost) == [kind |-> "Finished", cost |-> cost]

\* finish_callbacks that reports nothing when the loop is left
finish_callbacks_none(pc_after, final_cost) == << >>

\* the callbacks of the two branches that break out of the loop
finish_callbacks(pc_after, final_cost) ==
    IF pc_after = "Converged" THEN << finished_message(final_cost) >> ELSE << >>

\* one pass of the loop body once the selection phase chose `selected`
\* (an Option<EvaluatedMove>) at list index best_move_index (an Option<usize>)
LoopBody(selected, best_move_index) ==
    /\ iteration' = iteration + 1
    /\ cost_before_iter' = current_cost
    /\ best_evaluated_move' = selected
    /\ solution_before' = current_solution
    /\ list_before' = move_list
    /\ IF selected # << >>
       THEN \E solution_after \in {apply(selected[1].move_type, current_solution)} :
            \E cost_after \in {reconciled_cost(instance, current_cost, selected[1],
                                               solution_after)} :
               /\ current_solution' = solution_after
               /\ current_cost' = cost_after
               /\ move_list' =
                     IF variant = MoveListSteepest /\ best_move_index # << >>
                     THEN update_move_list(instance, move_list, best_move_index[1],
                                           selected[1], solution_after, neighborhood)
                     ELSE move_list
               /\ pc' = improvement_check(cost_after, current_cost)
               /\ progress_log' = progress_log
                     \o << iter_message(iteration + 1, current_cost) >>
                     \o finish_callbacks(improvement_check(cost_after, current_cost),
                                         cost_after)
       ELSE /\ current_solution' = current_solution
            /\ current_cost' = current_cost
            /\ move_list' = move_list
            /\ pc' = "Converged"
            /\ progress_log' = progress_log
                  \o << iter_message(iteration + 1, current_cost) >>
                  \o finish_callbacks("Converged", current_cost)
    /\ UNCHANGED << instance, nearest_neighbors, variant, candidate_k, neighborhood,
                    initial_solution_type, initial_cost, evaluated,
                    algorithm, solve_available, solve_current_cycle,
                    best_solution, best_cost, max_iterations >>

IterateSteepest ==
    /\ pc = "Iterating" /\ variant = Steepest /\ iteration < MaxIter
    /\ \E moves \in { generate_all_improving_moves(instance, current_solution,
                                                   neighborhood) } :
       \E selected \in { select_steepest(moves) } :
          LoopBody(selected, << >>)

IterateCandidateSteepest ==
    /\ pc = "Iterating" /\ variant = CandidateSteepest /\ iteration < MaxIter
    /\ \E moves \in { generate_candidate_moves(instance, current_solution, neighborhood,
                                               nearest_neighbors, candidate_k) } :
       \E selected \in { select_steepest(moves) } :
          LoopBody(selected, << >>)

IterateGreedy ==
    /\ pc = "Iterating" /\ variant = Greedy /\ iteration < MaxIter
    /\ \E moves \in { generate_all_improving_moves(instance, current_solution,
                                                   neighborhood) } :
       \E selected \in select_greedy(moves) :
          LoopBody(selected, << >>)

IterateMoveListSteepest ==
    /\ pc = "Iterating" /\ variant = MoveListSteepest /\ iteration < MaxIter
    /\ \E index \in select_from_move_list(move_list, current_solution) :
       \E selected \in {IF index = << >> THEN << >> ELSE << At(move_list, index[1]) >>} :
          LoopBody(selected, index)

\* the largest k a CandidateSteepest(k) is constructed with
MaxK == 2

\* the state when the loop is entered: initial solution, its cost, the initial move list
Init ==
    /\ instance \in InstanceIds
    /\ variant \in SearchVariant
    /\ neighborhood \in NeighborhoodType
    /\ candidate_k \in (IF variant = CandidateSteepest THEN 1..MaxK ELSE {0})
    /\ nearest_neighbors \in
          (IF variant = CandidateSteepest
           THEN precompute_nearest_neighbors(instance, no_neighbors(instance), candidate_k)
           ELSE { no_neighbors(instance) })
    /\ initial_solution_type \in InitialSolutionType
    /\ current_solution \in generate_initial_solution(instance, initial_solution_type)
    /\ current_cost = calculate_cost(instance, current_solution)
    /\ initial_cost = current_cost
    /\ cost_before_iter = current_cost
    /\ iteration = 0
    /\ move_list =
          (IF variant = MoveListSteepest
           THEN sort_by_delta(generate_all_improving_moves(instance, current_solution,
                                                           neighborhood))
           ELSE << >>)
    /\ best_evaluated_move = << >>
    /\ pc = "Iterating"
    /\ solution_before = current_solution
    /\ list_before = move_list
    /\ evaluated = << >>
    /\ progress_log = << >>
    /\ algorithm = WeightedRegretCycle
    /\ solve_available = << >>
    /\ solve_current_cycle = 1
    /\ best_solution = Solution(<< >>, << >>)
    /\ best_cost = 0
    /\ max_iterations = 0

Next ==
    \/ IterateSteepest
    \/ IterateGreedy
    \/ IterateCandidateSteepest
    \/ IterateMoveListSteepest

Spec == Init /\ [][Next]_vars

\* the loop runs on: no iteration is postponed forever
FairSpec == Spec /\ WF_vars(Next)

-----------------------------------------------------------------------------
(* The move functions on their own: an evaluation function is called on any  *)
(* two-cycle arrangement of the nodes and any pair of positions, and the     *)
(* move it returns is applied.  current_cost keeps the cost before the call. *)

\* the nodes in any order, cut at any point (a cycle may be empty)
any_solution(inst) ==
    { Solution(SubSeq(p, 1, h), SubSeq(p, h + 1, dimension(inst))) :
        p \in Orderings(Nodes(inst)), h \in 0..dimension(inst) }

Call(name, cycle, pos1, pos2, result) ==
    [call |-> name, cycle |-> cycle, pos1 |-> pos1, pos2 |-> pos2, result |-> result]

MovesInit ==
    /\ instance \in {i \in InstanceIds : dimension(i) <= MaxRandomDim}
    /\ variant = Steepest
    /\ neighborhood = VertexExchange
    /\ candidate_k = 0
    /\ nearest_neighbors = no_neighbors(instance)
    /\ initial_solution_type = Random
    /\ current_solution \in any_solution(instance)
    /\ current_cost = calculate_cost(instance, current_solution)
    /\ initial_cost = current_cost
    /\ cost_before_iter = current_cost
    /\ iteration = 0
    /\ move_list = << >>
    /\ best_evaluated_move = << >>
    /\ pc = "Ready"
    /\ solution_before = current_solution
    /\ list_before = << >>
    /\ evaluated = << >>
    /\ progress_log = << >>
    /\ algorithm = WeightedRegretCycle
    /\ solve_available = << >>
    /\ solve_current_cycle = 1
    /\ best_solution = Solution(<< >>, << >>)
    /\ best_cost = 0
    /\ max_iterations = 0

\* the evaluation returned `result`: record the call, apply the move if there is one
EvaluateAndApply(name, cycle, pos1, pos2, result) ==
    /\ evaluated' = << Call(name, cycle, pos1, pos2, result) >>
    /\ solution_before' = current_solution
    /\ current_solution' = IF result = << >> THEN current_solution
                           ELSE apply(result[1].move_type, current_solution)
    /\ pc' = "Applied"
    /\ UNCHANGED << instance, nearest_neighbors, variant, candidate_k, neighborhood,
                    initial_solution_type, current_cost, cost_before_iter, iteration,
                    move_list, best_evaluated_move, initial_cost, list_before,
                    progress_log,
                    algorithm, solve_available, solve_current_cycle,
                    best_solution, best_cost, max_iterations >>

\* the positions tried on a cycle: every index and one beyond the end
PositionsOf(cycle_vec) == 0..Len(cycle_vec)

InterRouteExchangeCall ==
    /\ pc = "Ready"
    /\ \E pos1 \in PositionsOf(current_solution.cycle1),
          pos2 \in PositionsOf(current_solution.cycle2) :
          EvaluateAndApply("evaluate_inter_route_exchange", Cycle1, pos1, pos2,
              evaluate_inter_route_exchange(instance, current_solution, pos1, pos2))

IntraRouteVertexExchangeCall ==
    /\ pc = "Ready"
    /\ \E cycle \in {Cycle1, Cycle2} :
          \E pos1, pos2 \in PositionsOf(get_cycle(current_solution, cycle)) :
             EvaluateAndApply("evaluate_intra_route_vertex_exchange", cycle, pos1, pos2,
                 evaluate_intra_route_vertex_exchange(instance, current_solution, cycle,
                                                      pos1, pos2))

IntraRouteEdgeExchangeCall ==
    /\ pc = "Ready"
    /\ \E cycle \in {Cycle1, Cycle2} :
          \E pos1, pos2 \in PositionsOf(get_cycle(current_solution, cycle)) :
             EvaluateAndApply("evaluate_intra_route_edge_exchange", cycle, pos1, pos2,
                 evaluate_intra_route_edge_exchange(instance, current_solution, cycle,
                                                    pos1, pos2))

MovesNext ==
    \/ InterRouteExchangeCall
    \/ IntraRouteVertexExchangeCall
    \/ IntraRouteEdgeExchangeCall

MovesSpec == MovesInit /\ [][MovesNext]_vars

-----------------------------------------------------------------------------
(* Move::apply on its own: any move descriptor, stale or not, is applied to a *)
(* two-cycle arrangement of the nodes.  Move::apply reads positions and node  *)
(* identities only, so the nodes are taken in their natural order and cut at  *)
(* any point; the descriptor ranges over every node id and one id that no     *)
(* cycle holds.                                                               *)

\* the nodes 0..N-1 in order, cut at any point (a cycle may be empty)
cut_solutions(inst) ==
    { Solution([k \in 1..h |-> k - 1], [k \in 1..(dimension(inst) - h) |-> h + k - 1]) :
        h \in 0..dimension(inst) }

\* the node ids a descriptor may carry: the nodes and one id found in no cycle
node_ids_tried(inst) == 0..dimension(inst)

ApplyInit ==
    /\ instance \in InstanceIds
    /\ variant = Steepest
    /\ neighborhood = VertexExchange
    /\ candidate_k = 0
    /\ nearest_neighbors = no_neighbors(instance)
    /\ initial_solution_type = Random
    /\ current_solution \in cut_solutions(instance)
    /\ current_cost = calculate_cost(instance, current_solution)
    /\ initial_cost = current_cost
    /\ cost_before_iter = current_cost
    /\ iteration = 0
    /\ move_list = << >>
    /\ best_evaluated_move = << >>
    /\ pc = "Ready"
    /\ solution_before = current_solution
    /\ list_before = << >>
    /\ evaluated = << >>
    /\ progress_log = << >>
    /\ algorithm = WeightedRegretCycle
    /\ solve_available = << >>
    /\ solve_current_cycle = 1
    /\ best_solution = Solution(<< >>, << >>)
    /\ best_cost = 0
    /\ max_iterations = 0

\* m.apply(&mut solution): record the descriptor, mutate the solution
ApplyMove(m) ==
    /\ evaluated' = << [call |-> "apply", move_type |-> m] >>
    /\ solution_before' = current_solution
    /\ current_solution' = apply(m, current_solution)
    /\ pc' = "Applied"
    /\ UNCHANGED << instance, nearest_neighbors, variant, candidate_k, neighborhood,
                    initial_solution_type, current_cost, cost_before_iter, iteration,
                    move_list, best_evaluated_move, initial_cost, list_before,
                    progress_log,
                    algorithm, solve_available, solve_current_cycle,
                    best_solution, best_cost, max_iterations >>

ApplyInterRouteExchange ==
    /\ pc = "Ready"
    /\ \E v1, v2 \in node_ids_tried(instance) : ApplyMove(InterRouteExchange(v1, v2))

ApplyIntraRouteVertexExchange ==
    /\ pc = "Ready"
    /\ \E v1, v2 \in node_ids_tried(instance), cycle \in {Cycle1, Cycle2} :
          ApplyMove(IntraRouteVertexExchange(v1, v2, cycle))

ApplyIntraRouteEdgeExchange ==
    /\ pc = "Ready"
    /\ \E a, b, c, d \in node_ids_tried(instance), cycle \in {Cycle1, Cycle2} :
          ApplyMove(IntraRouteEdgeExchange(a, b, c, d, cycle))

\* the descriptors tried: every kind over the node ids tried
moves_tried(inst) ==
    { InterRouteExchange(v1, v2) : v1, v2 \in node_ids_tried(inst) }
    \cup { IntraRouteVertexExchange(v1, v2, cycle) :
               v1, v2 \in node_ids_tried(inst), cycle \in {Cycle1, Cycle2} }
    \cup { IntraRouteEdgeExchange(a, b, c, d, cycle) :
               a, b, c, d \in node_ids_tried(inst), cycle \in {Cycle1, Cycle2} }

\* self.is_move_valid(&solution, &move_type): record the descriptor and the answer
IsMoveValidCall ==
    /\ pc = "Ready"
    /\ \E m \in moves_tried(instance) :
          evaluated' = << [call |-> "is_move_valid", move_type |-> m,
                           result |-> is_move_valid(current_solution, m)] >>
    /\ pc' = "Checked"
    /\ UNCHANGED << instance, nearest_neighbors, variant, candidate_k, neighborhood,
                    initial_solution_type, current_solution, current_cost,
                    cost_before_iter, iteration, move_list, best_evaluated_move,
                    initial_cost, solution_before, list_before, progress_log,
                    algorithm, solve_available, solve_current_cycle,
                    best_solution, best_cost, max_iterations >>

\* m.apply(&mut solution) once more, for an exchange of two vertices just applied;
\* solution_before keeps the solution before the first of the two calls
ApplyAgain ==
    /\ pc = "Applied"
    /\ evaluated[1].move_type.kind \in {"InterRouteExchange", "IntraRouteVertexExchange"}
    /\ evaluated' = << [call |-> "apply again", move_type |-> evaluated[1].move_type] >>
    /\ current_solution' = apply(evaluated[1].move_type, current_solution)
    /\ pc' = "AppliedTwice"
    /\ UNCHANGED << instance, nearest_neighbors, variant, candidate_k, neighborhood,
                    initial_solution_type, current_cost, cost_before_iter, iteration,
                    move_list, best_evaluated_move, initial_cost, solution_before,
                    list_before, progress_log,
                    algorithm, solve_available, solve_current_cycle,
                    best_solution, best_cost, max_iterations >>

ApplyNext ==
    \/ ApplyInterRouteExchange
    \/ ApplyIntraRouteVertexExchange
    \/ ApplyIntraRouteEdgeExchange
    \/ IsMoveValidCall
    \/ ApplyAgain

ApplySpec == ApplyInit /\ [][ApplyNext]_vars

-----------------------------------------------------------------------------
(* The nearest-neighbour table of a TsplibInstance on its own: after from_file *)
(* the table holds an empty list per node; precompute_nearest_neighbors(k) is  *)
(* called with any k, valid or not, any number of times, and                   *)
(* get_nearest_neighbors with any node id and one id out of range.  A panic    *)
(* ends the run.  candidate_k keeps the k of the last precomputation and pc    *)
(* tells whether there was one.                                                *)

NeighborsInit ==
    /\ instance \in InstanceIds
    /\ variant = CandidateSteepest
    /\ neighborhood = VertexExchange
    /\ candidate_k = 0
    /\ nearest_neighbors = no_neighbors(instance)
    /\ initial_solution_type = Random
    /\ current_solution = Solution(<< >>, << >>)
    /\ current_cost = 0
    /\ initial_cost = 0
    /\ cost_before_iter = 0
    /\ iteration = 0
    /\ move_list = << >>
    /\ best_evaluated_move = << >>
    /\ pc = "Loaded"
    /\ solution_before = current_solution
    /\ list_before = << >>
    /\ evaluated = << >>
    /\ progress_log = << >>
    /\ algorithm = WeightedRegretCycle
    /\ solve_available = << >>
    /\ solve_current_cycle = 1
    /\ best_solution = Solution(<< >>, << >>)
    /\ best_cost = 0
    /\ max_iterations = 0

\* the last call panicked: the program is gone
has_panicked ==
    /\ evaluated # << >>
    /\ evaluated[1].call = "get_nearest_neighbors"
    /\ evaluated[1].result.panicked

PrecomputeNearestNeighbors ==
    /\ ~has_panicked
    /\ \E k \in 0..dimension(instance) :
       \E table \in precompute_nearest_neighbors(instance, nearest_neighbors, k) :
          /\ nearest_neighbors' = table
          /\ candidate_k' = k
          /\ pc' = "Precomputed"
          /\ evaluated' = << [call |-> "precompute_nearest_neighbors", k |-> k,
                               before |-> nearest_neighbors] >>
    /\ UNCHANGED << instance, variant, neighborhood, initial_solution_type,
                    current_solution, current_cost, cost_before_iter, iteration,
                    move_list, best_evaluated_move, initial_cost, solution_before,
                    list_before, progress_log,
                    algorithm, solve_available, solve_current_cycle,
                    best_solution, best_cost, max_iterations >>

GetNearestNeighbors ==
    /\ ~has_panicked
    /\ \E node_id \in 0..dimension(instance) :
          evaluated' = << [call |-> "get_nearest_neighbors", node_id |-> node_id,
                           result |-> get_nearest_neighbors(instance, nearest_neighbors,
                                                            node_id)] >>
    /\ UNCHANGED << instance, nearest_neighbors, variant, candidate_k, neighborhood,
                    initial_solution_type, current_solution, current_cost,
                    cost_before_iter, iteration, move_list, best_evaluated_move, pc,
                    initial_cost, solution_before, list_before, progress_log,
                    algorithm, solve_available, solve_current_cycle,
                    best_solution, best_cost, max_iterations >>

NeighborsNext ==
    \/ PrecomputeNearestNeighbors
    \/ GetNearestNeighbors

NeighborsSpec == NeighborsInit /\ [][NeighborsNext]_vars

-----------------------------------------------------------------------------
(* Solution::is_valid and Solution::calculate_cost on their own: the two      *)
(* cycles are any vectors of ids, valid or not (ids repeated, missing, or     *)
(* out of range), and each function is called on them.                        *)

\* the longest pair of cycles tried, counted in ids
MaxSolutionLen == 5

\* the ids a vector may hold: the node ids and one id out of range
ids_tried(inst) == 0..dimension(inst)

SolutionInit ==
    /\ instance \in {i \in InstanceIds : dimension(i) <= MaxSolutionLen}
    /\ variant = Steepest
    /\ neighborhood = VertexExchange
    /\ candidate_k = 0
    /\ nearest_neighbors = no_neighbors(instance)
    /\ initial_solution_type = Random
    /\ \E len \in 0..MaxSolutionLen :
       \E ids \in [1..len -> ids_tried(instance)] :
       \E len1 \in 0..len :
          current_solution = Solution(SubSeq(ids, 1, len1), SubSeq(ids, len1 + 1, len))
    /\ current_cost = 0
    /\ initial_cost = 0
    /\ cost_before_iter = 0
    /\ iteration = 0
    /\ move_list = << >>
    /\ best_evaluated_move = << >>
    /\ pc = "Ready"
    /\ solution_before = current_solution
    /\ list_before = << >>
    /\ evaluated = << >>
    /\ progress_log = << >>
    /\ algorithm = WeightedRegretCycle
    /\ solve_available = << >>
    /\ solve_current_cycle = 1
    /\ best_solution = Solution(<< >>, << >>)
    /\ best_cost = 0
    /\ max_iterations = 0

\* a call on the solution returned `result`
SolutionCall(name, result) ==
    /\ pc = "Ready"
    /\ evaluated' = << [call |-> name, result |-> result] >>
    /\ pc' = "Called"
    /\ UNCHANGED << instance, nearest_neighbors, variant, candidate_k, neighborhood,
                    initial_solution_type, current_solution, current_cost,
                    cost_before_iter, iteration, move_list, best_evaluated_move,
                    initial_cost, solution_before, list_before, progress_log,
                    algorithm, solve_available, solve_current_cycle,
                    best_solution, best_cost, max_iterations >>

IsValidCall == SolutionCall("is_valid", is_valid(instance, current_solution))

\* instance.distance(from, to) indexes the matrix: an id out of range panics
CalculateCostCall ==
    SolutionCall("calculate_cost",
        IF Range(current_solution.cycle1 \o current_solution.cycle2) \subseteq Nodes(instance)
        THEN Returned(calculate_cost(instance, current_solution))
        ELSE Panicked)

SolutionNext ==
    \/ IsValidCall
    \/ CalculateCostCall

SolutionSpec == SolutionInit /\ [][SolutionNext]_vars

-----------------------------------------------------------------------------
(* The constructive heuristics: solve() of GreedyCycle, RegretCycle and     *)
(* WeightedRegretCycle step by step, and NearestNeighbor::solve             *)

ConstructInit ==
    /\ instance \in InstanceIds \cup SmallInstanceIds
    /\ algorithm \in InsertionHeuristics \cup {NearestNeighbor}
    /\ variant = Steepest
    /\ neighborhood = VertexExchange
    /\ candidate_k = 0
    /\ nearest_neighbors = no_neighbors(instance)
    /\ initial_solution_type = Heuristic
    /\ current_solution = Solution(<< >>, << >>)
    /\ current_cost = 0
    /\ initial_cost = 0
    /\ cost_before_iter = 0
    /\ iteration = 0
    /\ move_list = << >>
    /\ best_evaluated_move = << >>
    /\ pc = "Start"
    /\ solution_before = current_solution
    /\ list_before = << >>
    /\ evaluated = << >>
    /\ progress_log = << >>
    /\ solve_available = << >>
    /\ solve_current_cycle = 1
    /\ best_solution = Solution(<< >>, << >>)
    /\ best_cost = 0
    /\ max_iterations = 0

\* the cycles under construction are kept in current_solution
ConstructStep(cycle1, cycle2, available, current_cycle, pc_after) ==
    /\ current_solution' = Solution(cycle1, cycle2)
    /\ solve_available' = available
    /\ solve_current_cycle' = current_cycle
    /\ pc' = pc_after
    /\ solution_before' = current_solution
    /\ UNCHANGED << instance, nearest_neighbors, variant, candidate_k, neighborhood,
                    initial_solution_type, current_cost, cost_before_iter, iteration,
                    move_list, best_evaluated_move, initial_cost, list_before,
                    evaluated, progress_log, algorithm,
                    best_solution, best_cost, max_iterations >>

\* the start pair, the two one-vertex cycles and the available vertices
ChooseStartPair ==
    /\ pc = "Start" /\ algorithm \in InsertionHeuristics
    /\ \E start \in {find_max_distance_pair(instance)} :
          ConstructStep(<< start[1] >>, << start[2] >>,
                        initially_available(instance, start), 1, "Seeded")

\* cycle.push(nearest) and available.retain(..) if a vertex is available:
\* << cycle, available >> afterwards
push_nearest(inst, cycle, available) ==
    IF available = << >> THEN << cycle, available >>
    ELSE << Append(cycle, find_nearest(inst, cycle[1], available)),
            retain_other(available, find_nearest(inst, cycle[1], available)) >>

\* "Add initial vertices to each cycle if possible"
PushNearest ==
    /\ pc = "Seeded"
    /\ \E first \in {push_nearest(instance, current_solution.cycle1, solve_available)} :
       \E second \in {push_nearest(instance, current_solution.cycle2, first[2])} :
          ConstructStep(first[1], second[1], second[2], 1, "Inserting")

\* one pass of the while loop
InsertVertex ==
    /\ pc = "Inserting" /\ solve_available # << >>
    /\ \E chosen \in {select_best_vertex_of(algorithm, instance,
                          IF solve_current_cycle = 1 THEN current_solution.cycle1
                          ELSE current_solution.cycle2, solve_available)} :
          IF chosen = << >>
          THEN ConstructStep(current_solution.cycle1, current_solution.cycle2,
                             solve_available, 3 - solve_current_cycle, "Inserting")
          ELSE IF solve_current_cycle = 1
          THEN ConstructStep(InsertAt(current_solution.cycle1, chosen[1][2], chosen[1][1]),
                             current_solution.cycle2,
                             retain_other(solve_available, chosen[1][1]), 2, "Inserting")
          ELSE ConstructStep(current_solution.cycle1,
                             InsertAt(current_solution.cycle2, chosen[1][2], chosen[1][1]),
                             retain_other(solve_available, chosen[1][1]), 1, "Inserting")

\* the loop is left: Solution::new(cycle1, cycle2)
ReturnSolution ==
    /\ pc = "Inserting" /\ solve_available = << >>
    /\ ConstructStep(current_solution.cycle1, current_solution.cycle2, << >>,
                     solve_current_cycle, "Returned")

NearestNeighborSolve ==
    /\ pc = "Start" /\ algorithm = NearestNeighbor
    /\ \E built \in {nearest_neighbor(instance)} :
          ConstructStep(built.cycle1, built.cycle2, << >>, 1, "Returned")

ConstructNext ==
    \/ ChooseStartPair
    \/ PushNearest
    \/ InsertVertex
    \/ ReturnSolution
    \/ NearestNeighborSolve

ConstructSpec == ConstructInit /\ [][ConstructNext]_vars

\* solve() is a sequential loop: a step that can be taken is taken
FairConstructSpec == ConstructSpec /\ WF_vars(ConstructNext)

-----------------------------------------------------------------------------
(* The MoveListSteepest loop entered in the middle of a run: the list holds  *)
(* the improving moves found, and sorted, for an earlier solution, and the   *)
(* current solution is any split of the nodes                                *)

MoveListInit ==
    /\ instance \in {i \in InstanceIds : dimension(i) <= MaxRandomDim}
    /\ variant = MoveListSteepest
    /\ neighborhood \in NeighborhoodType
    /\ candidate_k = 0
    /\ nearest_neighbors = no_neighbors(instance)
    /\ initial_solution_type = Random
    /\ current_solution \in any_solution(instance)
    /\ current_cost = calculate_cost(instance, current_solution)
    /\ initial_cost = current_cost
    /\ cost_before_iter = current_cost
    /\ iteration = 0
    /\ \E earlier \in cut_solutions(instance) :
          move_list = sort_by_delta(generate_all_improving_moves(instance, earlier,
                                                                 neighborhood))
    /\ best_evaluated_move = << >>
    /\ pc = "Iterating"
    /\ solution_before = current_solution
    /\ list_before = move_list
    /\ evaluated = << >>
    /\ progress_log = << >>
    /\ algorithm = WeightedRegretCycle
    /\ solve_available = << >>
    /\ solve_current_cycle = 1
    /\ best_solution = Solution(<< >>, << >>)
    /\ best_cost = 0
    /\ max_iterations = 0

MoveListSpec == MoveListInit /\ [][IterateMoveListSteepest]_vars

-----------------------------------------------------------------------------
(* generate_all_improving_moves on its own: the function is called once on a  *)
(* solution over the nodes, in either neighbourhood, and the vector it        *)
(* returns is kept in move_list.                                              *)

EnumerateInit ==
    /\ instance \in InstanceIds
    /\ variant = Steepest
    /\ neighborhood \in NeighborhoodType
    /\ candidate_k = 0
    /\ nearest_neighbors = no_neighbors(instance)
    /\ initial_solution_type = Random
    /\ current_solution \in
          cut_solutions(instance)
          \cup (IF dimension(instance) <= MaxRandomDim THEN any_solution(instance) ELSE {})
    /\ current_cost = calculate_cost(instance, current_solution)
    /\ initial_cost = current_cost
    /\ cost_before_iter = current_cost
    /\ iteration = 0
    /\ move_list = << >>
    /\ best_evaluated_move = << >>
    /\ pc = "Ready"
    /\ solution_before = current_solution
    /\ list_before = << >>
    /\ evaluated = << >>
    /\ progress_log = << >>
    /\ algorithm = WeightedRegretCycle
    /\ solve_available = << >>
    /\ solve_current_cycle = 1
    /\ best_solution = Solution(<< >>, << >>)
    /\ best_cost = 0
    /\ max_iterations = 0

\* self.generate_all_improving_moves(instance, &solution)
GenerateAllImprovingMovesCall ==
    /\ pc = "Ready"
    /\ move_list' = generate_all_improving_moves(instance, current_solution, neighborhood)
    /\ pc' = "Generated"
    /\ UNCHANGED << instance, nearest_neighbors, variant, candidate_k, neighborhood,
                    initial_solution_type, current_solution, current_cost,
                    cost_before_iter, iteration, best_evaluated_move, initial_cost,
                    solution_before, list_before, evaluated, progress_log,
                    algorithm, solve_available, solve_current_cycle,
                    best_solution, best_cost, max_iterations >>

EnumerateSpec == EnumerateInit /\ [][GenerateAllImprovingMovesCall]_vars

-----------------------------------------------------------------------------
(* RandomWalk: algorithms/random_walk.rs.  The walk starts from a random      *)
(* solution, draws a move per iteration and applies it, and keeps a copy of   *)
(* the cheapest solution seen.  The draws of rng are choices of the model;    *)
(* the `while` loops that draw pos2 again are steps of their own, the last    *)
(* draw being kept in `evaluated`.  `iteration` is the loop counter i.        *)

\* the largest max_iterations a RandomWalk is constructed with
MaxWalkIterations == 2

\* the best-so-far test turned off: every solution visited becomes the best
is_new_best_always(cost, best) == TRUE

\* if current_cost < best_cost
is_new_best(cost, best) == cost < best

\* the cycles the `if .. else if .. else` chain can choose for an intra-route move
\* that needs `least` nodes; none when neither cycle is large enough
cycle_choice(n1, n2, least) ==
    { cycle \in {Cycle1, Cycle2} : (IF cycle = Cycle1 THEN n1 ELSE n2) >= least }

Draw(kind, cycle, pos1, pos2) == [kind |-> kind, cycle |-> cycle, pos1 |-> pos1, pos2 |-> pos2]

\* the outcomes of generate_random_move up to its first draw of pos2: None, or
\* the kind, the cycle and the two positions drawn
random_draws(solution) ==
    LET n1 == Len(solution.cycle1)
        n2 == Len(solution.cycle2)
    IN IF n1 + n2 < 3 THEN { << >> }
       ELSE (IF n1 > 0 /\ n2 > 0
             THEN { << Draw("InterRouteExchange", Cycle1, pos1, pos2) >> :
                       pos1 \in 0..(n1 - 1), pos2 \in 0..(n2 - 1) }
             ELSE { << >> })
            \cup (IF cycle_choice(n1, n2, 2) = {} THEN { << >> }
                  ELSE UNION { { << Draw("IntraRouteVertexExchange", cycle, pos1, pos2) >> :
                                    pos1, pos2 \in 0..(Len(get_cycle(solution, cycle)) - 1) } :
                               cycle \in cycle_choice(n1, n2, 2) })
            \cup (IF cycle_choice(n1, n2, 3) = {} THEN { << >> }
                  ELSE UNION { { << Draw("IntraRouteEdgeExchange", cycle, pos1, pos2) >> :
                                    pos1, pos2 \in 0..(Len(get_cycle(solution, cycle)) - 1) } :
                               cycle \in cycle_choice(n1, n2, 3) })

\* the conditions of the two `while` loops: pos2 is drawn again
pos2_rejected(draw, n) ==
    CASE draw.kind = "InterRouteExchange" -> FALSE
      [] draw.kind = "IntraRouteVertexExchange" -> draw.pos1 = draw.pos2
      [] draw.kind = "IntraRouteEdgeExchange" ->
             \/ draw.pos1 = draw.pos2
             \/ (draw.pos1 + 1) % n = draw.pos2
             \/ (draw.pos2 + 1) % n = draw.pos1

\* Some(Move::.. { pos1, pos2 }): the move of the nodes at the positions drawn,
\* the positions of an edge exchange ordered first
positions_move(solution, draw) ==
    LET cycle_vec == get_cycle(solution, draw.cycle)
        n == Len(cycle_vec)
        lo == IF draw.pos1 < draw.pos2 THEN draw.pos1 ELSE draw.pos2
        hi == IF draw.pos1 < draw.pos2 THEN draw.pos2 ELSE draw.pos1
    IN CASE draw.kind = "InterRouteExchange" ->
                InterRouteExchange(At(solution.cycle1, draw.pos1),
                                   At(solution.cycle2, draw.pos2))
         [] draw.kind = "IntraRouteVertexExchange" ->
                IntraRouteVertexExchange(At(cycle_vec, draw.pos1), At(cycle_vec, draw.pos2),
                                         draw.cycle)
         [] draw.kind = "IntraRouteEdgeExchange" ->
                IntraRouteEdgeExchange(At(cycle_vec, lo), At(cycle_vec, (lo + 1) % n),
                                       At(cycle_vec, hi), At(cycle_vec, (hi + 1) % n),
                                       draw.cycle)

\* the progress message at the head of iteration i: every 100th and the last one
walk_iter_callback(i, max, best) ==
    IF i % 100 = 0 \/ i = max - 1
    THEN << [kind |-> "Iter", iteration |-> i + 1, of |-> max, best_cost |-> best] >>
    ELSE << >>

\* progress_callback(format!("[Finished] Final Best Cost: {}", best_cost))
walk_finished_message(best) == [kind |-> "Finished", best_cost |-> best]

WalkInit ==
    /\ instance \in InstanceIds \cup { s \in SmallInstanceIds : dimension(s) <= 3 }
    /\ variant = Steepest
    /\ neighborhood = VertexExchange
    /\ candidate_k = 0
    /\ nearest_neighbors = no_neighbors(instance)
    /\ initial_solution_type = Random
    /\ current_solution \in generate_random_solution(instance)
    /\ current_cost = calculate_cost(instance, current_solution)
    /\ initial_cost = current_cost
    /\ cost_before_iter = current_cost
    /\ iteration = 0
    /\ move_list = << >>
    /\ best_evaluated_move = << >>
    /\ pc = "Walking"
    /\ solution_before = current_solution
    /\ list_before = << >>
    /\ evaluated = << >>
    /\ progress_log = << >>
    /\ algorithm = WeightedRegretCycle
    /\ solve_available = << >>
    /\ solve_current_cycle = 1
    /\ best_solution = current_solution
    /\ best_cost = current_cost
    /\ max_iterations \in 0..MaxWalkIterations

\* the rest of the loop body once generate_random_move drew `draw` (an Option),
\* `log` being the messages sent so far
WalkStep(draw, log) ==
    /\ IF draw = << >>
       THEN /\ pc' = "Returned"
            /\ progress_log' = log \o << walk_finished_message(best_cost) >>
            /\ evaluated' = << >>
            /\ UNCHANGED << current_solution, current_cost, best_solution, best_cost,
                            iteration, solution_before >>
       ELSE IF pos2_rejected(draw[1], Len(get_cycle(current_solution, draw[1].cycle)))
       THEN /\ pc' = "Redrawing"
            /\ progress_log' = log
            /\ evaluated' = draw
            /\ UNCHANGED << current_solution, current_cost, best_solution, best_cost,
                            iteration, solution_before >>
       ELSE \E solution_after \in {apply(positions_move(current_solution, draw[1]),
                                         current_solution)} :
            \E cost_after \in {calculate_cost(instance, solution_after)} :
               /\ current_solution' = solution_after
               /\ current_cost' = cost_after
               /\ solution_before' = current_solution
               /\ best_cost' = IF is_new_best(cost_after, best_cost)
                               THEN cost_after ELSE best_cost
               /\ best_solution' = IF is_new_best(cost_after, best_cost)
                                   THEN solution_after ELSE best_solution
               /\ iteration' = iteration + 1
               /\ pc' = "Walking"
               /\ progress_log' = log
               /\ evaluated' = << >>
    /\ UNCHANGED << instance, nearest_neighbors, variant, candidate_k, neighborhood,
                    initial_solution_type, cost_before_iter, move_list,
                    best_evaluated_move, initial_cost, list_before,
                    algorithm, solve_available, solve_current_cycle, max_iterations >>

\* one pass of `for i in 0..self.max_iterations` up to the first draw of pos2
WalkIterate ==
    /\ pc = "Walking" /\ iteration < max_iterations
    /\ \E draw \in random_draws(current_solution) :
          WalkStep(draw, progress_log
                         \o walk_iter_callback(iteration, max_iterations, best_cost))

\* one pass of `while .. { pos2 = rng.gen_range(0..n); }`
RedrawPos2 ==
    /\ pc = "Redrawing"
    /\ \E pos2 \in 0..(Len(get_cycle(current_solution, evaluated[1].cycle)) - 1) :
          WalkStep(<< [evaluated[1] EXCEPT !.pos2 = pos2] >>, progress_log)

\* the loop ran max_iterations times: the last message, best_solution is returned
WalkReturn ==
    /\ pc = "Walking" /\ iteration = max_iterations
    /\ pc' = "Returned"
    /\ progress_log' = progress_log \o << walk_finished_message(best_cost) >>
    /\ UNCHANGED << instance, nearest_neighbors, variant, candidate_k, neighborhood,
                    initial_solution_type, current_solution, current_cost,
                    cost_before_iter, iteration, move_list, best_evaluated_move,
                    initial_cost, solution_before, list_before, evaluated,
                    algorithm, solve_available, solve_current_cycle,
                    best_solution, best_cost, max_iterations >>

WalkNext ==
    \/ WalkIterate
    \/ RedrawPos2
    \/ WalkReturn

WalkSpec == WalkInit /\ [][WalkNext]_vars

-----------------------------------------------------------------------------
(* Properties of the search loop (Spec, FairSpec) *)

\* the nodes a move names
NodesReferenced(m) ==
    CASE m.kind = "InterRouteExchange" -> {m.v1, m.v2}
      [] m.kind = "IntraRouteVertexExchange" -> {m.v1, m.v2}
      [] m.kind = "IntraRouteEdgeExchange" -> {m.a, m.b, m.c, m.d}

\* the two cycles are disjoint, without repetition, and cover the nodes of the instance
IsPartition(inst, solution) ==
    /\ Range(solution.cycle1) \cup Range(solution.cycle2) = Nodes(inst)
    /\ Range(solution.cycle1) \cap Range(solution.cycle2) = {}
    /\ Cardinality(Range(solution.cycle1)) = Len(solution.cycle1)
    /\ Cardinality(Range(solution.cycle2)) = Len(solution.cycle2)

\* C1: in every state of the engine, under each of the four strategies and after
\* each kind of move, the two cycles of the current solution partition the nodes of
\* the instance: every node is in exactly one cycle, exactly once.
C1_PartitionInvariant == IsPartition(instance, current_solution)

\* a move-list run in which the last iteration applied an edge exchange
C1_Witness ==
    /\ variant = MoveListSteepest
    /\ iteration >= 1
    /\ best_evaluated_move # << >>
    /\ best_evaluated_move[1].move_type.kind = "IntraRouteEdgeExchange"
    /\ current_solution # solution_before

\* C2: under each of the four strategies the solution returned at convergence has a
\* cost, computed from scratch, no greater than the cost of the initial solution.
C2_ReturnedCostNoWorse ==
    pc = "Converged" => calculate_cost(instance, current_solution) <= initial_cost

\* C6: under Steepest and Greedy the tracked cost at the start of an iteration never
\* exceeds the tracked cost at the start of the iteration before it; the loop goes
\* on to a further iteration only with a tracked cost strictly below it.
C6_MonotonicImprovement ==
    (variant \in {Steepest, Greedy} /\ iteration >= 1)
        => /\ current_cost <= cost_before_iter
           /\ pc = "Iterating" => current_cost < cost_before_iter

\* a Greedy run about to start its fourth iteration or a later one
C6_Witness ==
    /\ variant = Greedy
    /\ pc = "Iterating"
    /\ iteration >= 3
    /\ best_evaluated_move # << >>

\* C7: from any initial solution, under each of the four strategies, the engine
\* reaches Converged after finitely many iterations.
C7_Convergence == <>(pc = "Converged")

\* a run that converged after applying moves in several iterations
C7_Witness ==
    /\ pc = "Converged"
    /\ iteration >= 4
    /\ calculate_cost(instance, current_solution) < initial_cost

\* the cost change that applying m to the solution causes
TrueDelta(inst, solution, m) ==
    calculate_cost(inst, apply(m, solution)) - calculate_cost(inst, solution)

\* C8: at every iteration boundary of Move-List Steepest, every entry of the move
\* list that passes the validity check has a stored delta equal to the cost change
\* that applying it to the current solution causes.  Stated for the EdgeExchange
\* neighbourhood, where the list holds inter-route and edge exchanges.
C8_MoveListWeakEquivalence ==
    (variant = MoveListSteepest /\ neighborhood = EdgeExchange) =>
        \A i \in 1..Len(move_list) :
            is_move_valid(current_solution, move_list[i].move_type) =>
                move_list[i].delta =
                    TrueDelta(instance, current_solution, move_list[i].move_type)

\* C9: after the list maintenance that follows an applied move, every move of the
\* active neighbourhood that has a negative delta against the new solution and
\* names an affected node is in the move list.  Stated for the EdgeExchange
\* neighbourhood, where the list holds inter-route and edge exchanges.
C9_MoveListRegeneration ==
    (variant = MoveListSteepest /\ neighborhood = EdgeExchange
        /\ iteration >= 1 /\ best_evaluated_move # << >>) =>
        \A m \in Range(generate_all_improving_moves(instance, current_solution,
                                                    neighborhood)) :
            (NodesReferenced(m.move_type)
                \cap NodesReferenced(best_evaluated_move[1].move_type) # {})
                => \E i \in 1..Len(move_list) : move_list[i].move_type = m.move_type

C11_MoveListOrdering ==
    variant = MoveListSteepest =>
        /\ \A i \in 1..(Len(move_list) - 1) : move_list[i].delta <= move_list[i + 1].delta
        /\ \A i, j \in 1..Len(move_list) :
              i # j => move_list[i].move_type # move_list[j].move_type
        /\ \A i \in 1..Len(move_list) : move_list[i].delta < 0

\* a list of at least two entries, of unequal deltas, left after a move was applied
C11_Witness ==
    /\ variant = MoveListSteepest
    /\ iteration >= 1
    /\ best_evaluated_move # << >>
    /\ Len(move_list) >= 2
    /\ move_list[1].delta < move_list[Len(move_list)].delta

\* C17: in every iteration the progress callback is invoked before any move of that
\* iteration is applied, carrying the tracked cost at that moment, and once more with
\* the final cost when the engine terminates: (number of iterations) + 1 callbacks.
C17_ProgressReporting ==
    /\ Len(progress_log) = iteration + (IF pc = "Converged" THEN 1 ELSE 0)
    /\ \A k \in 1..iteration :
          progress_log[k].kind = "Iter" /\ progress_log[k].iteration = k
    /\ iteration >= 1 => progress_log[iteration].cost = cost_before_iter
    /\ iteration >= 1 => progress_log[1].cost = initial_cost
    /\ pc = "Converged" => progress_log[iteration + 1] = finished_message(current_cost)

\* a run that ended in its fourth iteration or later, on a move that did not improve
C17_Witness ==
    /\ pc = "Converged"
    /\ iteration >= 4
    /\ best_evaluated_move # << >>
    /\ Len(progress_log) = iteration + 1
    /\ progress_log[iteration + 1].kind = "Finished"

-----------------------------------------------------------------------------
(* Properties of the move functions (MovesSpec) *)

\* the cost change from the solution the evaluation saw to the one left by the move
ActualChange ==
    calculate_cost(instance, current_solution) - calculate_cost(instance, solution_before)

\* the last call was to the evaluation function `name` and returned a move
Reported(name) ==
    /\ evaluated # << >>
    /\ evaluated[1].call = name
    /\ evaluated[1].result # << >>

C4_IntraVertexDeltaExact ==
    Reported("evaluate_intra_route_vertex_exchange") =>
        evaluated[1].result[1].delta = ActualChange

\* C5: for a cycle of n >= 3 nodes and two positions neither equal nor cyclically
\* adjacent, with i the lower and j the higher position, a = cycle[i],
\* b = cycle[i+1], c = cycle[j], d = cycle[(j+1) % n], the edge exchange evaluation
\* reports d(a,c) + d(b,d) - d(a,b) - d(c,d), and applying the returned move
\* changes the total cost by exactly that amount.
C5_EdgeExchangeDeltaExact ==
    (/\ evaluated # << >>
     /\ evaluated[1].call = "evaluate_intra_route_edge_exchange"
     /\ Len(get_cycle(solution_before, evaluated[1].cycle)) >= 3
     /\ evaluated[1].pos1 < Len(get_cycle(solution_before, evaluated[1].cycle))
     /\ evaluated[1].pos2 < Len(get_cycle(solution_before, evaluated[1].cycle))
     /\ evaluated[1].pos1 # evaluated[1].pos2
     /\ (evaluated[1].pos1 + 1) % Len(get_cycle(solution_before, evaluated[1].cycle))
           # evaluated[1].pos2
     /\ (evaluated[1].pos2 + 1) % Len(get_cycle(solution_before, evaluated[1].cycle))
           # evaluated[1].pos1)
    => LET cycle_vec == get_cycle(solution_before, evaluated[1].cycle)
           n == Len(cycle_vec)
           i == IF evaluated[1].pos1 < evaluated[1].pos2
                THEN evaluated[1].pos1 ELSE evaluated[1].pos2
           j == IF evaluated[1].pos1 < evaluated[1].pos2
                THEN evaluated[1].pos2 ELSE evaluated[1].pos1
           a == At(cycle_vec, i)
           b == At(cycle_vec, i + 1)
           c == At(cycle_vec, j)
           d == At(cycle_vec, (j + 1) % n)
       IN /\ evaluated[1].result # << >>
          /\ evaluated[1].result[1].delta =
                distance(instance, a, c) + distance(instance, b, d)
                - distance(instance, a, b) - distance(instance, c, d)
          /\ evaluated[1].result[1].delta = ActualChange

\* an edge exchange in a cycle of four nodes or more that changes the cost
C5_Witness ==
    /\ Reported("evaluate_intra_route_edge_exchange")
    /\ Len(get_cycle(solution_before, evaluated[1].cycle)) >= 4
    /\ evaluated[1].result[1].delta < 0
    /\ current_solution # solution_before

-----------------------------------------------------------------------------
(* Properties of Move::apply (ApplySpec) *)

\* node is currently located in the cycle named cycle_id
located_in(solution, cycle_id, node) == node \in Range(get_cycle(solution, cycle_id))

\* some node the move references is not located in the cycle(s) the move requires
references_stale_node(m, solution) ==
    CASE m.kind = "InterRouteExchange" ->
             ~ \/ located_in(solution, Cycle1, m.v1) /\ located_in(solution, Cycle2, m.v2)
               \/ located_in(solution, Cycle2, m.v1) /\ located_in(solution, Cycle1, m.v2)
      [] m.kind = "IntraRouteVertexExchange" ->
             \E v \in {m.v1, m.v2} : ~located_in(solution, m.cycle, v)
      [] m.kind = "IntraRouteEdgeExchange" ->
             \E v \in {m.a, m.b, m.c, m.d} : ~located_in(solution, m.cycle, v)

\* C12: Move::apply leaves the Solution unchanged whenever a node the move references
\* is not located in the cycle(s) the move requires (InterRouteExchange: same cycle
\* or absent; IntraRouteVertexExchange: a node outside the named cycle;
\* IntraRouteEdgeExchange: any of a, b, c, d outside the named cycle).
C12_StaleReferenceNoOp ==
    (pc = "Applied" /\ evaluated # << >> /\ evaluated[1].call = "apply"
       /\ references_stale_node(evaluated[1].move_type, solution_before))
        => current_solution = solution_before

\* the cycle with u and v exchanged wherever they stand, every other slot as it was
exchanged_slots(cycle_vec, u, v) ==
    [i \in 1..Len(cycle_vec) |->
        IF cycle_vec[i] = u THEN v ELSE IF cycle_vec[i] = v THEN u ELSE cycle_vec[i]]

\* C18: applying InterRouteExchange(u, v) with u and v in different cycles changes
\* exactly two slots: the slot that held u holds v, the slot that held v holds u,
\* every other position of both cycles and both cycle lengths are unchanged.
C18_InterRouteExchangeFrame ==
    (pc = "Applied" /\ evaluated # << >> /\ evaluated[1].call = "apply"
       /\ evaluated[1].move_type.kind = "InterRouteExchange"
       /\ ~references_stale_node(evaluated[1].move_type, solution_before))
        => LET u == evaluated[1].move_type.v1
               v == evaluated[1].move_type.v2
           IN /\ Len(current_solution.cycle1) = Len(solution_before.cycle1)
              /\ Len(current_solution.cycle2) = Len(solution_before.cycle2)
              /\ current_solution.cycle1 = exchanged_slots(solution_before.cycle1, u, v)
              /\ current_solution.cycle2 = exchanged_slots(solution_before.cycle2, u, v)
              /\ Cardinality({i \in 1..Len(current_solution.cycle1) :
                     current_solution.cycle1[i] # solution_before.cycle1[i]}) = 1
              /\ Cardinality({i \in 1..Len(current_solution.cycle2) :
                     current_solution.cycle2[i] # solution_before.cycle2[i]}) = 1

\* an exchange between cycles of 4 and 3 nodes, v1 standing in cycle2 and v2 in cycle1
C18_Witness ==
    /\ pc = "Applied" /\ evaluated # << >> /\ evaluated[1].call = "apply"
    /\ evaluated[1].move_type.kind = "InterRouteExchange"
    /\ Len(solution_before.cycle1) = 4 /\ Len(solution_before.cycle2) = 3
    /\ located_in(solution_before, Cycle2, evaluated[1].move_type.v1)
    /\ located_in(solution_before, Cycle1, evaluated[1].move_type.v2)
    /\ current_solution # solution_before

-----------------------------------------------------------------------------
(* Properties of the nearest-neighbour table (NeighborsSpec) *)

\* C13: get_nearest_neighbors(i) on an instance for which precompute_nearest_neighbors
\* has not yet been called panics, and so does it for a node id i >= N; it never
\* returns a list in these cases.
C13_FatalMisuse ==
    (evaluated # << >> /\ evaluated[1].call = "get_nearest_neighbors"
       /\ (pc = "Loaded" \/ evaluated[1].node_id >= dimension(instance)))
        => evaluated[1].result.panicked

\* a request for the neighbours of node 0 before any precomputation
C13_Witness ==
    /\ pc = "Loaded"
    /\ evaluated # << >> /\ evaluated[1].call = "get_nearest_neighbors"
    /\ evaluated[1].node_id = 0
    /\ evaluated[1].result.panicked

\* C14: after precompute_nearest_neighbors(k) with 0 < k < N, for every node i,
\* get_nearest_neighbors(i) is a sequence of exactly k distinct node ids, none equal
\* to i, in non-decreasing order of distance from i, and every other node outside
\* the sequence is at least as far from i as the last node of the sequence.
C14_KNearestResult ==
    (pc = "Precomputed" /\ 0 < candidate_k /\ candidate_k < dimension(instance))
        => \A i \in Nodes(instance) :
              LET got == get_nearest_neighbors(instance, nearest_neighbors, i)
              IN /\ ~got.panicked
                 /\ Len(got.value) = candidate_k
                 /\ Cardinality(Range(got.value)) = candidate_k
                 /\ Range(got.value) \subseteq Nodes(instance) \ {i}
                 /\ \A j \in 1..(candidate_k - 1) :
                       distance(instance, i, got.value[j])
                           <= distance(instance, i, got.value[j + 1])
                 /\ \A other \in (Nodes(instance) \ {i}) \ Range(got.value) :
                       distance(instance, i, other)
                           >= distance(instance, i, got.value[candidate_k])

\* a table of three neighbours per node, read back for some node
C14_Witness ==
    /\ pc = "Precomputed"
    /\ candidate_k = 3
    /\ evaluated # << >> /\ evaluated[1].call = "get_nearest_neighbors"
    /\ ~evaluated[1].result.panicked
    /\ Len(evaluated[1].result.value) = 3

-----------------------------------------------------------------------------
(* Properties of the Solution functions (SolutionSpec) *)

\* the number of positions of the two cycles that hold id
occurrences(solution, id) ==
    Cardinality({i \in 1..Len(solution.cycle1) : solution.cycle1[i] = id})
    + Cardinality({i \in 1..Len(solution.cycle2) : solution.cycle2[i] = id})

\* C15: is_valid returns true if and only if every node id in [0,N) occurs exactly
\* once in the concatenation of cycle1 and cycle2 and no other id occurs; it returns
\* false when an id is out of range, duplicated or missing.
C15_IsValidExact ==
    (pc = "Called" /\ evaluated[1].call = "is_valid")
        => (evaluated[1].result
               <=> /\ \A id \in Nodes(instance) : occurrences(current_solution, id) = 1
                   /\ Range(current_solution.cycle1 \o current_solution.cycle2)
                          \subseteq Nodes(instance))

\* a solution of N ids, all in range, one of them in both cycles, found invalid
C15_Witness ==
    /\ pc = "Called" /\ evaluated[1].call = "is_valid"
    /\ ~evaluated[1].result
    /\ Len(current_solution.cycle1) + Len(current_solution.cycle2) = dimension(instance)
    /\ Range(current_solution.cycle1 \o current_solution.cycle2) \subseteq Nodes(instance)
    /\ Range(current_solution.cycle1) \cap Range(current_solution.cycle2) # {}

\* the sum of distance(cycle[i], cycle[(i+1) mod L]) over the positions in I
RECURSIVE edge_sum(_, _, _)
edge_sum(inst, cycle, I) ==
    IF I = {} THEN 0
    ELSE LET i == CHOOSE i \in I : TRUE
         IN distance(inst, cycle[i], cycle[(i % Len(cycle)) + 1])
            + edge_sum(inst, cycle, I \ {i})

\* what a cycle contributes: 0 when empty or of one node, twice the distance of its
\* two nodes when of two nodes; None for the longer cycles
short_cycle_cost(inst, cycle) ==
    IF Len(cycle) <= 1 THEN << 0 >>
    ELSE IF Len(cycle) = 2 THEN << 2 * distance(inst, cycle[1], cycle[2]) >>
    ELSE << >>

\* C16: calculate_cost equals the sum, over both cycles and every position i of a
\* cycle of length L, of distance(cycle[i], cycle[(i+1) mod L]); an empty or one-node
\* cycle contributes 0 and a two-node cycle twice the distance between its nodes.
C16_CostIsEdgeSum ==
    (pc = "Called" /\ evaluated[1].call = "calculate_cost" /\ ~evaluated[1].result.panicked)
        => /\ evaluated[1].result.value
                 = edge_sum(instance, current_solution.cycle1,
                            1..Len(current_solution.cycle1))
                   + edge_sum(instance, current_solution.cycle2,
                              1..Len(current_solution.cycle2))
           /\ (short_cycle_cost(instance, current_solution.cycle1) # << >>
                  /\ short_cycle_cost(instance, current_solution.cycle2) # << >>)
                 => evaluated[1].result.value
                       = short_cycle_cost(instance, current_solution.cycle1)[1]
                         + short_cycle_cost(instance, current_solution.cycle2)[1]

\* the cost of a one-node cycle beside a two-node cycle of distinct nodes
C16_Witness ==
    /\ pc = "Called" /\ evaluated[1].call = "calculate_cost"
    /\ ~evaluated[1].result.panicked
    /\ Len(current_solution.cycle1) = 1
    /\ Len(current_solution.cycle2) = 2
    /\ evaluated[1].result.value > 0

-----------------------------------------------------------------------------
(* When the evaluation functions decline (MovesSpec) *)

\* positions p1 and p2 of a cycle of n nodes are next to each other, 0 and n-1 included
cyclically_adjacent(n, p1, p2) ==
    \/ p1 - p2 = 1 \/ p2 - p1 = 1
    \/ {p1, p2} = {0, n - 1}

\* C19: evaluate_intra_route_edge_exchange returns no move if and only if the cycle
\* has fewer than 3 nodes, or a position is out of range, or the two positions are
\* equal or cyclically adjacent (0 and n-1 included); otherwise it returns a move
\* with a delta.
C19_EdgeExchangeDeclined ==
    (pc = "Applied" /\ evaluated[1].call = "evaluate_intra_route_edge_exchange")
        => LET n == Len(get_cycle(solution_before, evaluated[1].cycle))
               p1 == evaluated[1].pos1
               p2 == evaluated[1].pos2
               result == evaluated[1].result
           IN /\ result = << >>
                    <=> (n < 3 \/ p1 >= n \/ p2 >= n \/ p1 = p2
                           \/ cyclically_adjacent(n, p1, p2))
              /\ result # << >>
                    => /\ result[1].delta \in Int
                       /\ result[1].move_type.kind = "IntraRouteEdgeExchange"

\* positions 0 and n-1 of a cycle of at least four nodes, declined
C19_Witness ==
    /\ pc = "Applied" /\ evaluated[1].call = "evaluate_intra_route_edge_exchange"
    /\ Len(get_cycle(solution_before, evaluated[1].cycle)) >= 4
    /\ evaluated[1].pos1 = Len(get_cycle(solution_before, evaluated[1].cycle)) - 1
    /\ evaluated[1].pos2 = 0
    /\ evaluated[1].result = << >>

\* C20: evaluate_inter_route_exchange returns no move whenever either cycle has fewer
\* than 2 nodes or a position is out of range for its cycle, and returns a move with
\* a delta in every other case.
C20_InterRouteDeclined ==
    (pc = "Applied" /\ evaluated[1].call = "evaluate_inter_route_exchange")
        => LET n1 == Len(solution_before.cycle1)
               n2 == Len(solution_before.cycle2)
               result == evaluated[1].result
           IN /\ result = << >>
                    <=> (n1 < 2 \/ n2 < 2 \/ evaluated[1].pos1 >= n1 \/ evaluated[1].pos2 >= n2)
              /\ result # << >>
                    => /\ result[1].delta \in Int
                       /\ result[1].move_type.kind = "InterRouteExchange"

\* a position one past the end of a cycle of two nodes, declined
C20_Witness ==
    /\ pc = "Applied" /\ evaluated[1].call = "evaluate_inter_route_exchange"
    /\ Len(solution_before.cycle1) = 2 /\ Len(solution_before.cycle2) >= 2
    /\ evaluated[1].pos1 = 2
    /\ evaluated[1].pos2 = 0
    /\ evaluated[1].result = << >>

(***************************************************************************)
(* Properties of the vertex exchange evaluation (MovesSpec)                *)
(***************************************************************************)

\* the evaluation with the two positions passed in the other order
swapped_call(c) ==
    evaluate_intra_route_vertex_exchange(instance, solution_before, c.cycle, c.pos2, c.pos1)

\* C21: evaluate_intra_route_vertex_exchange returns no move exactly when the
\* two positions are equal, the cycle has fewer than 2 nodes, or a position
\* is out of range; otherwise it returns one move with an integer delta that
\* exchanges the nodes at the two positions of the named cycle, and the
\* result is the same when the two positions are passed in the other order.
C21_VertexExchangeDeclineAndSymmetry ==
    (pc = "Applied" /\ evaluated[1].call = "evaluate_intra_route_vertex_exchange")
        => LET c == evaluated[1]
               cycle_vec == get_cycle(solution_before, c.cycle)
               n == Len(cycle_vec)
           IN /\ (c.result = << >>)
                     <=> (c.pos1 = c.pos2 \/ n < 2 \/ c.pos1 >= n \/ c.pos2 >= n)
              /\ c.result # << >> =>
                     /\ Len(c.result) = 1
                     /\ c.result[1].delta \in Int
                     /\ c.result[1].move_type.kind = "IntraRouteVertexExchange"
                     /\ c.result[1].move_type.cycle = c.cycle
                     /\ {c.result[1].move_type.v1, c.result[1].move_type.v2}
                            = {At(cycle_vec, c.pos1), At(cycle_vec, c.pos2)}
              /\ swapped_call(c) = c.result

\* a call with the larger position first on a cycle of at least 4 nodes, at
\* adjacent positions, returning a move
C21_Witness ==
    /\ pc = "Applied"
    /\ evaluated[1].call = "evaluate_intra_route_vertex_exchange"
    /\ evaluated[1].pos1 = evaluated[1].pos2 + 1
    /\ Len(get_cycle(solution_before, evaluated[1].cycle)) >= 4
    /\ evaluated[1].result # << >>

(***************************************************************************)
(* Properties of the constructive heuristics (ConstructSpec)               *)
(***************************************************************************)

\* the returned cycles partition the nodes, with ceil(N/2) and floor(N/2) of them
BalancedPartition(inst, solution) ==
    /\ IsPartition(inst, solution)
    /\ is_valid(inst, solution)
    /\ Len(solution.cycle1) = (dimension(inst) + 1) \div 2
    /\ Len(solution.cycle2) = dimension(inst) \div 2

\* C22: on every instance of N >= 2 nodes, solve() of the greedy-cycle, the
\* 2-regret and the weighted 2-regret heuristic terminates, and the Solution
\* it returns partitions the nodes into cycles of ceil(N/2) and floor(N/2)
\* nodes; the stepwise weighted heuristic returns what the engine starts from.
C22_InsertionHeuristicsReturnBalancedPartition ==
    /\ [](algorithm \in InsertionHeuristics /\ pc = "Returned"
             => /\ BalancedPartition(instance, current_solution)
                /\ algorithm = WeightedRegretCycle
                      => current_solution = weighted_regret_cycle(instance))
    /\ (algorithm \in InsertionHeuristics) ~> (pc = "Returned")

\* the greedy heuristic has returned on an instance of an odd number of nodes,
\* at least 5
C22_Witness ==
    /\ algorithm = GreedyCycle
    /\ pc = "Returned"
    /\ dimension(instance) % 2 = 1
    /\ dimension(instance) >= 5

\* C23: on every instance of N >= 2 nodes the Solution returned by the
\* nearest-neighbor heuristic assigns every node to exactly one cycle.
C23_NearestNeighborPartition ==
    (algorithm = NearestNeighbor /\ pc = "Returned")
        => IsPartition(instance, current_solution)

(***************************************************************************)
(* Properties of the selection phase (Spec)                                *)
(***************************************************************************)

\* the legal moves of a solution in a neighbourhood: what the evaluation functions
\* return over the pairs of positions, the intra-route pairs in either order or
\* (once_each) with the smaller position first
legal_moves_over(inst, solution, nbh, once_each) ==
    { r[1] : r \in
        ({ evaluate_inter_route_exchange(inst, solution, p1, p2) :
              p1 \in 0..(Len(solution.cycle1) - 1), p2 \in 0..(Len(solution.cycle2) - 1) }
         \cup UNION { { IF once_each /\ p1 > p2 THEN << >>
                        ELSE IF nbh = VertexExchange
                        THEN evaluate_intra_route_vertex_exchange(inst, solution, cycle, p1, p2)
                        ELSE evaluate_intra_route_edge_exchange(inst, solution, cycle, p1, p2) :
                           p1 \in 0..(Len(get_cycle(solution, cycle)) - 1),
                           p2 \in 0..(Len(get_cycle(solution, cycle)) - 1) } :
                      cycle \in {Cycle1, Cycle2} })
        \ { << >> } }

legal_moves(inst, solution, nbh) == legal_moves_over(inst, solution, nbh, FALSE)

\* the Steepest rule on the legal moves: a move of least delta is applied when a
\* legal move has negative delta, no move otherwise
steepest_rule(legal, selected) ==
    /\ (\E m \in legal : m.delta < 0)
          => /\ selected # << >>
             /\ selected[1] \in legal
             /\ \A m \in legal : selected[1].delta <= m.delta
             /\ current_solution = apply(selected[1].move_type, solution_before)
    /\ ~(\E m \in legal : m.delta < 0)
          => /\ selected = << >>
             /\ pc = "Converged"
             /\ current_solution = solution_before
    /\ selected # << >> => selected[1].delta < 0

\* C24: under Steepest, after every iteration: if a legal move of the solution
\* the iteration started from has negative delta, the applied move is a legal
\* move whose delta is at most that of every legal move; if none has, no move
\* was applied and the engine is Converged; an applied move has delta below 0.
C24_SteepestSelection ==
    (variant = Steepest /\ iteration >= 1)
        => steepest_rule(legal_moves(instance, solution_before, neighborhood),
                         best_evaluated_move)

\* a Steepest iteration that had several improving moves of different delta
\* to choose from
C24_Witness ==
    /\ variant = Steepest
    /\ iteration >= 1
    /\ best_evaluated_move # << >>
    /\ \E m \in legal_moves(instance, solution_before, neighborhood) :
          m.delta < 0 /\ m.delta > best_evaluated_move[1].delta

\* the Greedy rule on the legal moves: some legal move of negative delta is
\* applied exactly when there is one
greedy_rule(legal, selected) ==
    /\ (selected # << >>) <=> (\E m \in legal : m.delta < 0)
    /\ selected # << >>
          => /\ selected[1] \in legal
             /\ selected[1].delta < 0
             /\ current_solution = apply(selected[1].move_type, solution_before)
    /\ selected = << >> => /\ pc = "Converged"
                           /\ current_solution = solution_before

\* C25: under Greedy, after every iteration a move was applied exactly when a
\* legal move of the solution the iteration started from has negative delta,
\* and the applied move is a legal move of delta below 0; before every
\* iteration, each legal move of negative delta can be the one selected.
C25_GreedySelection ==
    /\ (variant = Greedy /\ iteration >= 1)
          => greedy_rule(legal_moves(instance, solution_before, neighborhood),
                         best_evaluated_move)
    /\ (variant = Greedy /\ pc = "Iterating" /\ iteration < MaxIter)
          => \A m \in legal_moves_over(instance, current_solution, neighborhood, TRUE) :
                m.delta < 0 => ENABLED (IterateGreedy /\ best_evaluated_move' = << m >>)

\* a Greedy iteration that applied an improving move while a legal move of
\* lower delta existed
C25_Witness ==
    /\ variant = Greedy
    /\ iteration >= 1
    /\ best_evaluated_move # << >>
    /\ \E m \in legal_moves(instance, solution_before, neighborhood) :
          m.delta < best_evaluated_move[1].delta

\* the two nodes a move brings together: the exchanged nodes, or the ends a and c
\* of the two removed edges, which the edge exchange joins
paired_nodes(m) ==
    IF m.kind = "IntraRouteEdgeExchange" THEN << m.a, m.c >> ELSE << m.v1, m.v2 >>

\* one node of the pair is in the stored neighbour list of the other
pairs_neighbours(m, table) ==
    \/ paired_nodes(m)[2] \in Range(table[paired_nodes(m)[1]])
    \/ paired_nodes(m)[1] \in Range(table[paired_nodes(m)[2]])

\* the stored lists are k nearest nodes: k distinct other nodes, none farther
\* than a node left out
holds_k_nearest(inst, table, k) ==
    \A a \in Nodes(inst) :
        /\ Len(table[a]) = k
        /\ Cardinality(Range(table[a])) = k
        /\ a \notin Range(table[a])
        /\ \A b \in Range(table[a]) : \A x \in Nodes(inst) \ (Range(table[a]) \cup {a}) :
              distance(inst, a, b) <= distance(inst, a, x)

valid_entries(list, solution) ==
    { i \in 1..Len(list) : is_move_valid(solution, list[i].move_type) }

\* the move-list rule: the selected entry is a valid one of least stored delta
move_list_rule(list, valid, selected) ==
    /\ valid # {}
          => /\ selected # << >>
             /\ \E i \in valid : list[i] = selected[1]
             /\ \A j \in valid : selected[1].delta <= list[j].delta
             /\ current_solution = apply(selected[1].move_type, solution_before)
    /\ valid = {}
          => /\ selected = << >>
             /\ pc = "Converged"
             /\ current_solution = solution_before
    /\ selected # << >> => is_move_valid(solution_before, selected[1].move_type)

\* C27: under MoveListSteepest, after every iteration the applied move is an
\* entry of the list the iteration started with that passes the validity check
\* on the solution it started from and stores the least delta among the
\* entries that pass; an entry that fails the check is never applied; if no
\* entry passes, no move was applied and the engine is Converged.
C27_MoveListSelection ==
    (variant = MoveListSteepest /\ iteration >= 1)
        => move_list_rule(list_before, valid_entries(list_before, solution_before),
                          best_evaluated_move)

\* a MoveListSteepest iteration that skipped an invalid entry of lower stored
\* delta and applied a valid one behind it
C27_Witness ==
    /\ variant = MoveListSteepest
    /\ iteration >= 1
    /\ best_evaluated_move # << >>
    /\ \E i \in 1..Len(list_before) :
          /\ list_before[i].delta < best_evaluated_move[1].delta
          /\ ~is_move_valid(solution_before, list_before[i].move_type)

(***************************************************************************)
(* Properties of is_move_valid (ApplySpec)                                 *)
(***************************************************************************)

\* y is the node right after x in the cycle, the last node being followed by
\* the first
immediate_successor(cycle, x, y) ==
    /\ x # y
    /\ \E i \in 0..(Len(cycle) - 1) : At(cycle, i) = x /\ At(cycle, (i + 1) % Len(cycle)) = y

\* what the validity check is to answer for a descriptor
move_is_structurally_valid(solution, m) ==
    CASE m.kind = "InterRouteExchange" ->
           \/ m.v1 \in Range(solution.cycle1) /\ m.v2 \in Range(solution.cycle2)
           \/ m.v1 \in Range(solution.cycle2) /\ m.v2 \in Range(solution.cycle1)
      [] m.kind = "IntraRouteVertexExchange" ->
           /\ m.v1 \in Range(get_cycle(solution, m.cycle))
           /\ m.v2 \in Range(get_cycle(solution, m.cycle))
      [] m.kind = "IntraRouteEdgeExchange" ->
           /\ immediate_successor(get_cycle(solution, m.cycle), m.a, m.b)
           /\ immediate_successor(get_cycle(solution, m.cycle), m.c, m.d)

C29_SafetyCheckTermination ==
    /\ []((iteration >= 1 /\ best_evaluated_move # << >>
              /\ current_cost >= cost_before_iter) => pc = "Converged")
    /\ [][pc = "Converged" => UNCHANGED vars]_vars

\* an iteration applied a move and the reconciled cost did not go down
C29_Witness ==
    /\ iteration >= 1
    /\ best_evaluated_move # << >>
    /\ current_solution # solution_before
    /\ current_cost >= cost_before_iter
    /\ pc = "Converged"

\* C30: in every state of the loop, hence at the start of every iteration,
\* after every applied move and at return, the tracked cost is the cost
\* calculate_cost gives for the current solution, whether or not the delta of
\* the applied move was the real change.
C30_TrackedCostIsRealCost ==
    current_cost = calculate_cost(instance, current_solution)

\* a move was applied whose stored delta was not the real change of the cost
C30_Witness ==
    /\ iteration >= 1
    /\ best_evaluated_move # << >>
    /\ cost_before_iter + best_evaluated_move[1].delta
          # calculate_cost(instance, current_solution)
    /\ current_cost = calculate_cost(instance, current_solution)

(***************************************************************************)
(* Properties of the reversal of Move::apply (ApplySpec)                   *)
(***************************************************************************)

\* the k-th position, k = 1.., of the arc that starts at position pos_b and runs
\* forward, wrapping past the end of a vector of n nodes
arc_position(pos_b, k, n) == (pos_b + k - 1) % n

\* the number of positions from pos_b forward to pos_c, both included
arc_length(pos_b, pos_c, n) == ((pos_c - pos_b + n) % n) + 1

\* x and y are next to each other in the cycle, in either direction
adjacent_in(cycle, x, y) ==
    \E i \in 0..(Len(cycle) - 1) :
        \/ At(cycle, i) = x /\ At(cycle, (i + 1) % Len(cycle)) = y
        \/ At(cycle, i) = y /\ At(cycle, (i + 1) % Len(cycle)) = x

\* after is before with the arc from pos_b forward to pos_c written back reversed
\* and every other position left alone
arc_reversed(before, after, pos_b, pos_c) ==
    /\ Len(after) = Len(before)
    /\ \A k \in 1..arc_length(pos_b, pos_c, Len(before)) :
          At(after, arc_position(pos_b, k, Len(before)))
             = At(before, arc_position(pos_b,
                              arc_length(pos_b, pos_c, Len(before)) + 1 - k, Len(before)))
    /\ \A i \in 0..(Len(before) - 1) :
          (i \notin { arc_position(pos_b, k, Len(before)) :
                         k \in 1..arc_length(pos_b, pos_c, Len(before)) })
              => At(after, i) = At(before, i)

\* the applied descriptor is an edge exchange whose b and c are in its cycle
edge_exchange_applied ==
    /\ pc = "Applied"
    /\ evaluated[1].call = "apply"
    /\ evaluated[1].move_type.kind = "IntraRouteEdgeExchange"
    /\ evaluated[1].move_type.b \in Range(get_cycle(solution_before, evaluated[1].move_type.cycle))
    /\ evaluated[1].move_type.c \in Range(get_cycle(solution_before, evaluated[1].move_type.cycle))

\* the reversal an applied edge exchange m is to have made in its cycle
reversal_outcome(m, before, after) ==
    /\ arc_reversed(before, after, position(before, m.b)[1], position(before, m.c)[1])
    /\ (/\ immediate_successor(before, m.a, m.b)
        /\ immediate_successor(before, m.c, m.d)
        /\ m.a # m.c)
          => adjacent_in(after, m.a, m.c) /\ adjacent_in(after, m.b, m.d)

\* C31: when an edge exchange is applied, the nodes on the arc from b forward to
\* c (through the end of the array and round to c when b lies behind c, the
\* slice b..c otherwise) are written back to the same positions in reversed
\* order, every other position of both cycles is unchanged, and when (a, b)
\* and (c, d) are two edges of the cycle, a is next to c and b next to d
\* afterwards.
C31_CyclicReversal ==
    edge_exchange_applied
        => /\ reversal_outcome(evaluated[1].move_type,
                               get_cycle(solution_before, evaluated[1].move_type.cycle),
                               get_cycle(current_solution, evaluated[1].move_type.cycle))
           /\ \A other \in {Cycle1, Cycle2} \ {evaluated[1].move_type.cycle} :
                 get_cycle(current_solution, other) = get_cycle(solution_before, other)

\* an edge exchange on two edges of a cycle of five nodes or more whose b lies
\* behind c, with an arc of at least three nodes
C31_Witness ==
    /\ edge_exchange_applied
    /\ Len(get_cycle(solution_before, evaluated[1].move_type.cycle)) >= 5
    /\ position(get_cycle(solution_before, evaluated[1].move_type.cycle),
                evaluated[1].move_type.b)[1]
          > position(get_cycle(solution_before, evaluated[1].move_type.cycle),
                     evaluated[1].move_type.c)[1] + 2
    /\ position(get_cycle(solution_before, evaluated[1].move_type.cycle),
                evaluated[1].move_type.c)[1] >= 1
    /\ immediate_successor(get_cycle(solution_before, evaluated[1].move_type.cycle),
                           evaluated[1].move_type.a, evaluated[1].move_type.b)
    /\ immediate_successor(get_cycle(solution_before, evaluated[1].move_type.cycle),
                           evaluated[1].move_type.c, evaluated[1].move_type.d)
    /\ current_solution # solution_before

(***************************************************************************)
(* Properties of the returned solution (Spec)                              *)
(***************************************************************************)

\* the real change of the total cost when the move is applied to the solution
true_change(inst, solution, m) ==
    calculate_cost(inst, apply(m, solution)) - calculate_cost(inst, solution)

\* no legal move of the neighbourhood lowers the real cost of the solution
local_optimum(inst, solution, nbh) ==
    \A m \in legal_moves(inst, solution, nbh) : true_change(inst, solution, m.move_type) >= 0

\* C32: whenever the loop has ended under Steepest or Greedy, no legal move of
\* the active neighbourhood lowers the real total cost of the solution returned.
C32_LocalOptimumAtReturn ==
    (variant \in {Steepest, Greedy} /\ pc = "Converged")
        => local_optimum(instance, current_solution, neighborhood)

\* the loop ended because the selection phase found no valid entry in the list
list_exhausted ==
    /\ variant = MoveListSteepest
    /\ pc = "Converged"
    /\ iteration >= 1
    /\ best_evaluated_move = << >>

\* C33: whenever MoveListSteepest ends because no valid improving entry remains
\* in its list, no legal move of the full neighbourhood of the current solution
\* has a negative delta.
C33_MoveListLocalOptimumAtReturn ==
    list_exhausted
        => \A m \in legal_moves(instance, current_solution, neighborhood) : m.delta >= 0

-----------------------------------------------------------------------------
(* Properties of the cycle sizes under Move::apply (ApplySpec) *)

\* the lengths of the two cycles
cycle_sizes(solution) == << Len(solution.cycle1), Len(solution.cycle2) >>

\* C34: no step changes the length of cycle1 or of cycle2: Move::apply of any
\* kind, on a descriptor that is valid or stale, keeps both lengths, so the
\* solution at the end has the cycle sizes of the one at the start.
C34_CycleSizesInvariant ==
    [][cycle_sizes(current_solution') = cycle_sizes(current_solution)]_vars

\* an apply that changed the solution through a descriptor naming a node of the
\* other cycle, after which both lengths are those before
C34_Witness ==
    /\ pc = "Applied"
    /\ current_solution # solution_before
    /\ references_stale_node(evaluated[1].move_type, solution_before)
    /\ cycle_sizes(current_solution) = cycle_sizes(solution_before)

-----------------------------------------------------------------------------
(* Properties of generate_all_improving_moves (EnumerateSpec) *)

\* the pairs of positions within a cycle of n nodes, each taken once: pos1 < pos2,
\* for the vertex exchange (n >= 2) all of them, for the edge exchange (n >= 3)
\* without the cyclically adjacent ones
intra_pairs(n, nbh) ==
    { p \in (0..(n - 1)) \X (0..(n - 1)) :
        /\ p[1] < p[2]
        /\ nbh = VertexExchange => n >= 2
        /\ nbh = EdgeExchange => (n >= 3 /\ p[2] - p[1] # 1 /\ p[2] - p[1] # n - 1) }

\* the pairs of positions of the neighbourhood: every pair (pos1, pos2) across
\* the cycles and the pairs within each cycle
neighbourhood_pairs(solution, nbh) ==
    { << "inter", Cycle1, p1, p2 >> :
         p1 \in 0..(Len(solution.cycle1) - 1), p2 \in 0..(Len(solution.cycle2) - 1) }
    \cup UNION { { << "intra", cycle, p[1], p[2] >> :
                     p \in intra_pairs(Len(get_cycle(solution, cycle)), nbh) } :
                 cycle \in {Cycle1, Cycle2} }

\* what the evaluation function of the pair returns
pair_evaluation(inst, solution, nbh, pair) ==
    IF pair[1] = "inter"
    THEN evaluate_inter_route_exchange(inst, solution, pair[3], pair[4])
    ELSE IF nbh = VertexExchange
    THEN evaluate_intra_route_vertex_exchange(inst, solution, pair[2], pair[3], pair[4])
    ELSE evaluate_intra_route_edge_exchange(inst, solution, pair[2], pair[3], pair[4])

\* the pairs whose move is legal and has a negative delta
improving_pairs(inst, solution, nbh) ==
    { pair \in neighbourhood_pairs(solution, nbh) :
        \E r \in {pair_evaluation(inst, solution, nbh, pair)} :
            r # << >> /\ r[1].delta < 0 }

\* C35: the vector generate_all_improving_moves returns holds exactly the legal
\* moves of negative delta of the neighbourhood (every inter-route pair, every
\* unordered pair of distinct positions of a cycle for the vertex exchange,
\* every unordered pair of different and not cyclically adjacent positions for
\* the edge exchange), each once, and no move of delta >= 0.
C35_EnumerationCompleteNoDuplicates ==
    pc = "Generated"
        => \E improving \in {improving_pairs(instance, current_solution, neighborhood)} :
              /\ Range(move_list) =
                    { pair_evaluation(instance, current_solution, neighborhood, pair)[1] :
                         pair \in improving }
              /\ Len(move_list) = Cardinality(improving)
              /\ Cardinality(Range(move_list)) = Len(move_list)
              /\ \A i \in 1..Len(move_list) : move_list[i].delta < 0

\* a call that returned improving moves of both kinds from a solution with a
\* cycle of five or more nodes, where some legal move does not improve
C35_Witness ==
    /\ pc = "Generated"
    /\ \E cycle \in {Cycle1, Cycle2} : Len(get_cycle(current_solution, cycle)) >= 5
    /\ \E i, j \in 1..Len(move_list) :
          /\ move_list[i].move_type.kind = "InterRouteExchange"
          /\ move_list[j].move_type.kind # "InterRouteExchange"
    /\ Len(move_list) <
          Cardinality(legal_moves_over(instance, current_solution, neighborhood, TRUE))

-----------------------------------------------------------------------------
(* Properties of the random walk (WalkSpec) *)

\* what holds of the walk in every state: best_solution is a partition of the
\* nodes and best_cost its cost, which is at most the cost of the initial
\* solution and of the solution the walk is at; i counts the moves applied
walk_keeps_best ==
    /\ IsPartition(instance, best_solution)
    /\ best_cost = calculate_cost(instance, best_solution)
    /\ best_cost <= initial_cost
    /\ best_cost <= calculate_cost(instance, current_solution)
    /\ iteration <= max_iterations

\* C36: the solution RandomWalk returns is a partition of the nodes, its cost
\* is at most the cost of the initial random solution and of every solution
\* visited (the best cost never rises and is at most the cost of the solution
\* the walk is at), and at most max_iterations moves are applied.
C36_RandomWalkReturnsBestVisited ==
    /\ [] walk_keeps_best
    /\ [][best_cost' <= best_cost /\ iteration' \in {iteration, iteration + 1}]_vars

\* a walk that used all its iterations, found a cheaper solution than the
\* initial one and left it again: it returns the cheaper one
C36_Witness ==
    /\ pc = "Returned"
    /\ iteration = max_iterations
    /\ best_cost < initial_cost
    /\ best_solution # current_solution
    /\ best_cost < calculate_cost(instance, current_solution)

-----------------------------------------------------------------------------
(* Properties of repeated precomputation (NeighborsSpec) *)

\* the k that precompute_nearest_neighbors rejects
rejected_k(inst, k) == k = 0 \/ k >= dimension(inst)

\* the last call was precompute_nearest_neighbors
precompute_called ==
    evaluated # << >> /\ evaluated[1].call = "precompute_nearest_neighbors"

\* the lists before the last call were computed (by an earlier call with a valid k)
computed_before == evaluated[1].before[0] # << >>

\* C37: after precompute_nearest_neighbors(k) with k = 0 or k >= N every list is
\* empty, also when an earlier call had filled them, and every
\* get_nearest_neighbors that follows aborts; after a call with the valid k the
\* lists were computed for, they are the lists before; after a call with another
\* valid k they are lists of that k.
C37_RejectedKResetsOracle ==
    /\ precompute_called =>
          \E k \in {evaluated[1].k} : \E before \in {evaluated[1].before} :
             /\ rejected_k(instance, k) =>
                   /\ \A i \in Nodes(instance) : nearest_neighbors[i] = << >>
                   /\ \A node_id \in 0..dimension(instance) :
                         get_nearest_neighbors(instance, nearest_neighbors, node_id) = Panicked
             /\ (~rejected_k(instance, k) /\ before[0] # << >> /\ Len(before[0]) = k) =>
                   nearest_neighbors = before
             /\ (~rejected_k(instance, k) /\ before[0] # << >> /\ Len(before[0]) # k) =>
                   /\ nearest_neighbors # before
                   /\ holds_k_nearest(instance, nearest_neighbors, k)
    /\ (evaluated # << >> /\ evaluated[1].call = "get_nearest_neighbors"
           /\ rejected_k(instance, candidate_k)) => evaluated[1].result.panicked

\* a rejected k that followed a successful precomputation: the lists that were
\* filled are empty again
C37_Witness ==
    /\ precompute_called
    /\ rejected_k(instance, evaluated[1].k)
    /\ computed_before
    /\ \A i \in Nodes(instance) : nearest_neighbors[i] = << >>

-----------------------------------------------------------------------------
(* Properties of repeated runs (Spec) *)

\* the selections an iteration could make: none, or one of the moves given
selections_among(moves) == { << >> } \cup { << m >> : m \in moves }

\* the solutions an iteration could leave: the current one, or one of the moves applied
results_among(moves) ==
    { current_solution } \cup { apply(m.move_type, current_solution) : m \in moves }

\* the selections of selections_among(moves) a Steepest iteration can make here
steepest_selections(moves) ==
    { o \in selections_among(moves) :
        ENABLED (IterateSteepest /\ best_evaluated_move' = o) }

\* the selections of selections_among(moves) a MoveListSteepest iteration can make here
move_list_selections(moves) ==
    { o \in selections_among(moves) :
        ENABLED (IterateMoveListSteepest /\ best_evaluated_move' = o) }

-----------------------------------------------------------------------------
(* Properties of a move applied twice (ApplySpec) *)

\* C39: after the same InterRouteExchange, or the same IntraRouteVertexExchange,
\* has been applied twice in succession, the solution is the one before the
\* first of the two applications.
C39_VertexSwapsAreInvolutions ==
    pc = "AppliedTwice" => current_solution = solution_before

\* an inter-route exchange whose first application changed both cycles and
\* whose second one changed them back
C39_Witness ==
    /\ pc = "AppliedTwice"
    /\ evaluated[1].move_type.kind = "InterRouteExchange"
    /\ current_solution = solution_before
    /\ \E once \in {apply(evaluated[1].move_type, solution_before)} :
          /\ once.cycle1 # solution_before.cycle1
          /\ once.cycle2 # solution_before.cycle2
          /\ apply(evaluated[1].move_type, once) = current_solution

====
